---- MODULE Spec2Model ----
(***************************************************************************)
(* A model of the boulder front end: the input reader, the lexer and the   *)
(* recursive-descent parser with its shunting-yard routine.                *)
(*                                                                         *)
(* Characters are one-character strings, a Rust String is a sequence of    *)
(* characters, Option<T> is a sequence of length 0 (None) or 1 (Some).     *)
(***************************************************************************)
EXTENDS Integers, Sequences, FiniteSets, TLC

VARIABLES reader, consumed, last, tokens, spans, status, err, ast

vars == <<reader, consumed, last, tokens, spans, status, err, ast>>

(***************************************************************************)
(* Bounds of the checked inputs.                                           *)
(***************************************************************************)
MaxLen == 4
MaxReaderLen == 4
MaxWords == 4
MaxExprWords == 5

None == <<>>
Some(x) == <<x>>

(***************************************************************************)
(* Character classes (char::is_numeric, is_alphabetic, is_alphanumeric on  *)
(* the ASCII range).                                                       *)
(***************************************************************************)
DigitChars == {"0", "1", "2", "3", "4", "5", "6", "7", "8", "9"}

AlphaChars ==
  {"a", "b", "c", "d", "e", "f", "g", "h", "i", "j", "k", "l", "m", "n", "o",
   "p", "q", "r", "s", "t", "u", "v", "w", "x", "y", "z",
   "A", "B", "C", "D", "E", "F", "G", "H", "I", "J", "K", "L", "M", "N", "O",
   "P", "Q", "R", "S", "T", "U", "V", "W", "X", "Y", "Z"}

HexLetters == {"a", "b", "c", "d", "e", "f", "A", "B", "C", "D", "E", "F"}

is_numeric(c) == c \in DigitChars
is_alphabetic(c) == c \in AlphaChars
is_alphanumeric(c) == is_alphabetic(c) \/ is_numeric(c)

(***************************************************************************)
(* CodePos (main.rs) and InputReader (input_reader.rs).                    *)
(***************************************************************************)
\* CodePos.file is an Option<String>
NoFile == None

CodePos(file, line, ch) == [file |-> file, line |-> line, ch |-> ch]

CodePosDefault == CodePos(NoFile, 1, 1)

pos_next(p) == [p EXCEPT !.ch = p.ch + 1]

\* a newline that resets the column and forgets to advance the line
pos_newline_same_line(p) == [p EXCEPT !.ch = 1]

pos_newline(p) == [p EXCEPT !.line = p.line + 1, !.ch = 1]

InputReaderNew(file, input) == [stream |-> input, pos |-> CodePos(file, 1, 1)]

peek_at(r, n) == IF n < Len(r.stream) THEN Some(r.stream[n + 1]) ELSE None

peek(r) == peek_at(r, 0)

\* consume with newline() called before next(): the column after '\n' is 2
consume_newline_first(r) ==
  IF r.stream = <<>>
  THEN [r |-> r, ch |-> None]
  ELSE LET c == Head(r.stream)
       IN [r  |-> [stream |-> Tail(r.stream),
                   pos    |-> IF c = "\n" THEN pos_next(pos_newline(r.pos))
                              ELSE pos_next(r.pos)],
           ch |-> Some(c)]

\* consume returns the reader after the call and the character it returned
consume(r) ==
  IF r.stream = <<>>
  THEN [r |-> r, ch |-> None]
  ELSE LET c == Head(r.stream)
           p1 == pos_next(r.pos)
       IN [r  |-> [stream |-> Tail(r.stream),
                   pos    |-> IF c = "\n" THEN pos_newline(p1) ELSE p1],
           ch |-> Some(c)]

\* the reader after one consume
Con(r) == consume(r).r

(***************************************************************************)
(* Tokens (token.rs).                                                      *)
(***************************************************************************)
Token(tt, start, end) ==
  [token_type |-> tt, value |-> None, op |-> None, start |-> start, end |-> end]

TokenLit(tt, v, start, end) ==
  [token_type |-> tt, value |-> Some(v), op |-> None, start |-> start, end |-> end]

TokenIdent(v, start, end) == TokenLit("Ident", v, start, end)

TokenOp(o, start, end) ==
  [token_type |-> "Operator", value |-> None, op |-> Some(o),
   start |-> start, end |-> end]

NoToken == Token("-", CodePosDefault, CodePosDefault)

(***************************************************************************)
(* Operators (operator.rs).  NoPrec stands for precedence() = None; Rust   *)
(* orders None below every Some(_).                                        *)
(***************************************************************************)
NoPrec == -1

precedence(o) ==
  CASE o \in {"Add", "Sub", "Gt", "Lt"} -> 0
    [] o \in {"Mul", "Div", "Mod", "Gte", "Lte", "BoolAnd", "BoolOr"} -> 1
    [] o \in {"Xor", "And", "Or", "Not", "Shl", "Shr", "Shlu", "Shru",
              "Eq", "Neq"} -> 2
    [] OTHER -> NoPrec

as_raw(o) ==
  CASE o = "Add" -> <<"+">>
    [] o = "Sub" -> <<"-">>
    [] o = "Mul" -> <<"*">>
    [] o = "Div" -> <<"+">>
    [] o = "Mod" -> <<"%">>
    [] o = "Xor" -> <<"^">>
    [] o = "And" -> <<"&">>
    [] o = "Or" -> <<"|">>
    [] o = "Assign" -> <<"=">>
    [] o = "Eq" -> <<"=", "=">>
    [] o = "Neq" -> <<"!", "=">>
    [] o = "Lt" -> <<"<">>
    [] o = "Lte" -> <<"<", "=">>
    [] o = "Gt" -> <<">">>
    [] o = "Gte" -> <<">", "=">>
    [] o = "BoolAnd" -> <<"&", "&">>
    [] o = "BoolOr" -> <<"|", "|">>
    [] o = "Not" -> <<"!">>
    [] o = "MulAssign" -> <<"*", "=">>
    [] o = "DivAssign" -> <<"/", "=">>
    [] o = "ModAssign" -> <<"%", "=">>
    [] o = "AddAssign" -> <<"+", "=">>
    [] o = "SubAssign" -> <<"-", "=">>
    [] o = "XorAssign" -> <<"^", "=">>
    [] o = "AndAssign" -> <<"&", "=">>
    [] o = "OrAssign" -> <<"|", "=">>
    [] o = "Shl" -> <<"<", "<">>
    [] o = "Shr" -> <<">", ">">>
    [] o = "ShlAssign" -> <<"<", "<", "=">>
    [] o = "ShrAssign" -> <<">", ">", "=">>
    [] o = "Shlu" -> <<"<", "<", "<">>
    [] o = "Shru" -> <<">", ">", ">">>
    [] o = "Move" -> <<"-", ">">>
    [] o = "Inc" -> <<"+", "+">>
    [] o = "Dec" -> <<"-", "-">>
    [] o = "Right" -> <<"=", ">">>
    [] o = "Range" -> <<".", ".">>
    [] o = "IRange" -> <<".", ".", "+">>

(***************************************************************************)
(* Lexer (lexer.rs).  A lexer result is ok with a token, or err with a     *)
(* heading, a message and a position; r is the reader after the call.      *)
(***************************************************************************)
LOk(tok, r) ==
  [kind |-> "ok", r |-> r, tok |-> tok, heading |-> "", msg |-> "", pos |-> r.pos]

LErr(heading, msg, pos, r) ==
  [kind |-> "err", r |-> r, tok |-> NoToken, heading |-> heading,
   msg |-> msg, pos |-> pos]

RECURSIVE next_ident_loop(_, _)
next_ident_loop(r, ident) ==
  IF peek(r) # None /\ (is_alphanumeric(peek(r)[1]) \/ peek(r)[1] = "_")
  THEN next_ident_loop(Con(r), Append(ident, peek(r)[1]))
  ELSE [r |-> r, s |-> ident]

next_ident(r) == next_ident_loop(r, <<>>)

RECURSIVE lex_hex_loop(_, _)
lex_hex_loop(r, lit) ==
  IF peek(r) # None /\ (is_numeric(peek(r)[1]) \/ peek(r)[1] \in HexLetters)
  THEN lex_hex_loop(Con(r), Append(lit, peek(r)[1]))
  ELSE [r |-> r, s |-> lit]

lex_hex_lit(r) ==
  LET start == r.pos
      l == lex_hex_loop(Con(Con(r)), <<>>)
  IN LOk(TokenLit("HexLit", l.s, start, l.r.pos), l.r)

RECURSIVE lex_bin_loop(_, _)
lex_bin_loop(r, lit) ==
  IF peek(r) # None /\ peek(r)[1] \in {"0", "1"}
  THEN lex_bin_loop(Con(r), Append(lit, peek(r)[1]))
  ELSE [r |-> r, s |-> lit]

lex_bin_lit(r) ==
  LET start == r.pos
      l == lex_bin_loop(Con(Con(r)), <<>>)
  IN LOk(TokenLit("BinLit", l.s, start, l.r.pos), l.r)

\* next_numeric: kind ok with the digits in s, or an error
\* a digit loop for which every `.` just ends the number
RECURSIVE next_numeric_loop_ends_at_dot(_, _, _)
next_numeric_loop_ends_at_dot(r, num, start) ==
  IF peek(r) = None
  THEN [kind |-> "ok", r |-> r, s |-> num, heading |-> "", msg |-> "", pos |-> r.pos]
  ELSE IF is_numeric(peek(r)[1])
  THEN next_numeric_loop_ends_at_dot(Con(r), Append(num, peek(r)[1]), start)
  ELSE [kind |-> "ok", r |-> r, s |-> num, heading |-> "", msg |-> "", pos |-> r.pos]

RECURSIVE next_numeric_loop(_, _, _)
next_numeric_loop(r, num, start) ==
  IF peek(r) = None
  THEN [kind |-> "ok", r |-> r, s |-> num, heading |-> "", msg |-> "", pos |-> r.pos]
  ELSE LET c == peek(r)[1]
       IN IF is_numeric(c)
          THEN next_numeric_loop(Con(r), Append(num, c), start)
          ELSE IF c = "."
          THEN IF peek_at(r, 1) = None
               THEN [kind |-> "err", r |-> r, s |-> num,
                     heading |-> "Unexpected token at EOF", msg |-> "Found .",
                     pos |-> start]
               ELSE IF is_numeric(peek_at(r, 1)[1])
               THEN [kind |-> "err", r |-> r, s |-> num,
                     heading |-> "Unexpected Token",
                     msg |-> "Decimals/floating point numbers are not yet supported!",
                     pos |-> r.pos]
               ELSE [kind |-> "ok", r |-> r, s |-> num, heading |-> "",
                     msg |-> "", pos |-> r.pos]
          ELSE [kind |-> "ok", r |-> r, s |-> num, heading |-> "", msg |-> "",
                pos |-> r.pos]

next_numeric(r) == next_numeric_loop(r, <<>>, r.pos)

\* Option<Operator> together with the reader after the call
lex_op_other(r, other, secondary) ==
  IF peek(r) # None /\ peek(r)[1] = secondary
  THEN [r |-> Con(r), op |-> Some(other)]
  ELSE [r |-> r, op |-> None]

lex_op_or(r, norm, other, secondary) ==
  LET o == lex_op_other(r, other, secondary)
  IN [r |-> o.r, op |-> IF o.op = None THEN norm ELSE o.op[1]]

lex_op(r, norm, assign) == lex_op_or(r, norm, assign, "=")

\* the string-literal loop of next_token
RECURSIVE lex_string_loop(_, _, _)
lex_string_loop(r, strlit, start) ==
  IF peek(r) = None
  THEN LOk(TokenLit("StringLit", strlit, start, r.pos), r)
  ELSE LET c == peek(r)[1]
           r1 == Con(r)
       IN IF c = "\""
          THEN LOk(TokenLit("StringLit", strlit, start, r1.pos), r1)
          ELSE IF peek(r1) = None
          THEN LErr("String literal with no close",
                    "Reached EOF before finding closing quote", start, r1)
          ELSE lex_string_loop(r1, Append(strlit, c), start)

\* a string literal whose token starts after the opening quote
lex_string_from_content(r) == lex_string_loop(Con(r), <<>>, Con(r).pos)

lex_string(r) == lex_string_loop(Con(r), <<>>, r.pos)

lex_char(r) ==
  LET start == r.pos
      r1 == Con(r)
      c2 == consume(r1)
      c3 == consume(c2.r)
  IN IF peek(r1) = None
     THEN LErr("Character literal with no close",
               "Reached EOF before finding closing quote", start, r1)
     ELSE IF peek(c2.r) = None
     THEN LErr("Character literal with no close",
               "Reached EOF before finding closing quote", start, c2.r)
     ELSE IF c3.ch[1] # "'"
     THEN LErr("Character literal with no close",
               "Found another character instead of closing quote", start, c3.r)
     ELSE LOk(TokenLit("CharLit", <<c2.ch[1]>>, start, c3.r.pos), c3.r)

\* the `//` loop: consume through the next newline
RECURSIVE lex_line_comment_loop(_)
lex_line_comment_loop(r) ==
  IF peek(r) = None THEN r
  ELSE IF peek(r)[1] = "\n" THEN Con(r)
  ELSE lex_line_comment_loop(Con(r))

\* a `/*` loop that also consumes the character after a `*` that is no `/`
RECURSIVE lex_block_comment_loop_skips(_)
lex_block_comment_loop_skips(r) ==
  IF peek(r) = None THEN r
  ELSE IF peek(r)[1] = "*"
  THEN LET r1 == Con(r)
       IN IF peek(r1) # None /\ peek(r1)[1] = "/"
          THEN Con(r1)
          ELSE lex_block_comment_loop_skips(Con(r1))
  ELSE lex_block_comment_loop_skips(Con(r))

\* the `/*` loop: consume through the next `*/`
RECURSIVE lex_block_comment_loop(_)
lex_block_comment_loop(r) ==
  IF peek(r) = None THEN r
  ELSE IF peek(r)[1] = "*"
  THEN LET r1 == Con(r)
       IN IF peek(r1) # None /\ peek(r1)[1] = "/"
          THEN Con(r1)
          ELSE lex_block_comment_loop(r1)
  ELSE lex_block_comment_loop(Con(r))

\* an operator token ending at the reader position of an operator result
OpTok(o, start) == LOk(TokenOp(o.op, start, o.r.pos), o.r)

\* first try `other` on `secondary`, then norm or assign (the +, -, &, |, = branches)
lex_op_first(r, other, secondary, norm, assign, start) ==
  LET o == lex_op_other(r, other, secondary)
  IN IF o.op # None
     THEN LOk(TokenOp(o.op[1], start, o.r.pos), o.r)
     ELSE OpTok(lex_op(r, norm, assign), start)

lex_minus(r, start) ==
  LET d == lex_op_other(r, "Dec", "-")
      m == lex_op_other(r, "Move", ">")
  IN IF d.op # None THEN LOk(TokenOp(d.op[1], start, d.r.pos), d.r)
     ELSE IF m.op # None THEN LOk(TokenOp(m.op[1], start, m.r.pos), m.r)
     ELSE OpTok(lex_op(r, "Sub", "SubAssign"), start)

lex_slash(r, start) ==
  IF peek(r) # None /\ peek(r)[1] = "/"
  THEN LET r2 == lex_line_comment_loop(Con(r))
       IN LOk(Token("Whitespace", start, r2.pos), r2)
  ELSE IF peek(r) # None /\ peek(r)[1] = "*"
  THEN LET r2 == lex_block_comment_loop(Con(r))
       IN LOk(Token("Whitespace", start, r2.pos), r2)
  ELSE OpTok(lex_op(r, "Div", "DivAssign"), start)

\* the operators the lexer gives to a lone `<`, `<=`, `>`, `>=`
LessOp == "Gt"
LessEqOp == "Gte"
GreaterOp == "Lt"
GreaterEqOp == "Lte"

\* angle branches that stop at the two-character shift: no unsigned shift
lex_angle_two_chars(r, start, c, sh, shu, sha, norm, normeq) ==
  LET o == lex_op_other(r, sh, c)
  IN IF o.op # None
     THEN OpTok(lex_op_or(o.r, sh, sha, "="), start)
     ELSE OpTok(lex_op(r, norm, normeq), start)

\* the '<' and '>' branches: shift, unsigned shift, shift-assign or comparison
lex_angle(r, start, c, sh, shu, sha, norm, normeq) ==
  LET o == lex_op_other(r, sh, c)
  IN IF o.op # None
     THEN LET slu == lex_op_or(o.r, sh, shu, c)
          IN IF slu.op = sh
             THEN OpTok(lex_op_or(slu.r, sh, sha, "="), start)
             ELSE OpTok(slu, start)
     ELSE OpTok(lex_op(r, norm, normeq), start)

lex_dot(r, start) ==
  IF peek(r) # None /\ peek(r)[1] = "."
  THEN LET r2 == Con(r)
       IN IF peek(r2) # None /\ peek(r2)[1] = "="
          THEN LOk(TokenOp("IRange", start, Con(r2).pos), Con(r2))
          ELSE LOk(TokenOp("Range", start, r2.pos), r2)
  ELSE LOk(Token("Dot", start, r.pos), r)

lex_colon(r, start) ==
  IF peek(r) # None /\ peek(r)[1] = ":"
  THEN LOk(Token("DoubleColon", start, Con(r).pos), Con(r))
  ELSE LOk(Token("Colon", start, r.pos), r)

lex_number(r) ==
  LET start == r.pos
      n == next_numeric(r)
  IN IF n.kind = "err" THEN LErr(n.heading, n.msg, n.pos, n.r)
     ELSE LOk(TokenLit("NumberLit", n.s, start, n.r.pos), n.r)

lex_zero(r) ==
  IF peek_at(r, 1) # None /\ peek_at(r, 1)[1] = "x" THEN lex_hex_lit(r)
  ELSE IF peek_at(r, 1) # None /\ peek_at(r, 1)[1] = "b" THEN lex_bin_lit(r)
  ELSE lex_number(r)

\* the keyword table of next_token
KeywordType(ident) ==
  CASE ident = <<"f", "n">> -> "Fn"
    [] ident = <<"l", "e", "t">> -> "Let"
    [] ident = <<"i", "f">> -> "If"
    [] ident = <<"e", "l", "s", "e">> -> "Else"
    [] ident = <<"w", "h", "i", "l", "e">> -> "While"
    [] ident = <<"f", "o", "r">> -> "For"
    [] ident = <<"l", "o", "o", "p">> -> "Loop"
    [] ident = <<"r", "e", "t", "u", "r", "n">> -> "Return"
    [] ident = <<"m", "a", "t", "c", "h">> -> "Match"
    [] ident = <<"s", "t", "r", "u", "c", "t">> -> "Struct"
    [] ident = <<"a", "s", "s", "e", "r", "t">> -> "Assert"
    [] ident = <<"i", "n">> -> "In"
    [] ident = <<"u", "s", "e">> -> "Use"
    [] ident = <<"t", "r", "u", "e">> -> "BoolTrue"
    [] ident = <<"f", "a", "l", "s", "e">> -> "BoolFalse"
    [] OTHER -> "Ident"

lex_word(r) ==
  LET start == r.pos
      i == next_ident(r)
      k == KeywordType(i.s)
  IN IF k = "Ident"
     THEN LOk(TokenIdent(i.s, start, i.r.pos), i.r)
     ELSE LOk(Token(k, start, i.r.pos), i.r)

\* the token kind of the one-character structural tokens
StructuralType(c) ==
  CASE c \in {" ", "\n", "\t"} -> "Whitespace"
    [] c = ";" -> "NOP"
    [] c = "(" -> "OpenParen"
    [] c = ")" -> "CloseParen"
    [] c = "{" -> "OpenBracket"
    [] c = "}" -> "CloseBracket"
    [] c = "[" -> "OpenBrace"
    [] c = "]" -> "CloseBrace"
    [] c = "," -> "Comma"
    [] c = "@" -> "Interrupt"
    [] c = "?" -> "Panic"

StructuralChars == {" ", "\n", "\t", ";", "(", ")", "{", "}", "[", "]", ",", "@", "?"}

\* an error that consumes the character and points behind it
unexpected_character_consumed(r, start) ==
  LErr("Unexpected character", "Found a character", Con(r).pos, Con(r))

\* the last arm of next_token: the character is neither consumed nor skipped
\* a last arm that answers with an empty token and leaves the character
unexpected_character_skipped(r, start) == LOk(Token("Whitespace", start, r.pos), r)

unexpected_character(r, start) ==
  LErr("Unexpected character", "Found a character", start, r)

\* next_token; the reader is not empty when it is called
next_token(r) ==
  LET next == peek(r)[1]
      start == r.pos
      r1 == Con(r)
  IN CASE next \in StructuralChars ->
            LOk(Token(StructuralType(next), start, r1.pos), r1)
       [] next = ":" -> lex_colon(r1, start)
       [] next = "." -> lex_dot(r1, start)
       [] next = "\"" -> lex_string(r)
       [] next = "'" -> lex_char(r)
       [] next = "+" -> lex_op_first(r1, "Inc", "+", "Add", "AddAssign", start)
       [] next = "-" -> lex_minus(r1, start)
       [] next = "*" -> OpTok(lex_op(r1, "Mul", "MulAssign"), start)
       [] next = "/" -> lex_slash(r1, start)
       [] next = "%" -> OpTok(lex_op(r1, "Mod", "ModAssign"), start)
       [] next = "^" -> OpTok(lex_op(r1, "Xor", "XorAssign"), start)
       [] next = "&" -> lex_op_first(r1, "BoolAnd", "&", "And", "AndAssign", start)
       [] next = "|" -> lex_op_first(r1, "BoolOr", "|", "Or", "OrAssign", start)
       [] next = "=" -> lex_op_first(r1, "Right", ">", "Assign", "Eq", start)
       [] next = "<" ->
            lex_angle(r1, start, "<", "Shl", "Shlu", "ShlAssign", LessOp, LessEqOp)
       [] next = ">" ->
            lex_angle(r1, start, ">", "Shr", "Shru", "ShrAssign", GreaterOp, GreaterEqOp)
       [] next = "!" -> OpTok(lex_op(r1, "Not", "Neq"), start)
       [] next = "0" -> lex_zero(r)
       [] OTHER ->
            IF is_alphabetic(next) \/ next = "_" THEN lex_word(r)
            ELSE IF is_numeric(next) THEN lex_number(r)
            ELSE unexpected_character(r, start)

\* an EOF token that spans the whole input instead of sitting at its end
EofTokenFromStart(r) == Token("EOF", CodePos(r.pos.file, 1, 1), r.pos)

\* the EOF token lex appends
EofToken(r) == Token("EOF", r.pos, r.pos)

\* lex as one function: the token list, or the first error
RECURSIVE lex_loop(_, _)
lex_loop(r, toks) ==
  IF peek(r) = None
  THEN [kind |-> "ok", r |-> r, tokens |-> Append(toks, EofToken(r)),
        heading |-> "", msg |-> "", pos |-> r.pos]
  ELSE LET t == next_token(r)
       IN IF t.kind = "err"
          THEN [kind |-> "err", r |-> t.r, tokens |-> <<>>,
                heading |-> t.heading, msg |-> t.msg, pos |-> t.pos]
          ELSE lex_loop(t.r, Append(toks, t.tok))

lex(r) == lex_loop(r, <<>>)

(***************************************************************************)
(* TokenList (token.rs).  removed is the token the last consume took out,  *)
(* eof_at_top whether parse_file itself consumed the EOF token, depth the  *)
(* number of `use` imports the list is nested in, drained the operator     *)
(* stack the last shunting_yard was left with when its main loop ended,    *)
(* pushed the kinds of all tokens ever pushed on an operator stack, and    *)
(* closes what each shunting_yard that stopped at a `)` left behind;       *)
(* none of the six is a field of the Rust struct.                          *)
(***************************************************************************)
TokenListNew(toks, depth) ==
  [tokens |-> toks, eof_loc |-> toks[Len(toks)].start, removed |-> None,
   eof_at_top |-> FALSE, depth |-> depth, drained |-> None, pushed |-> {},
   closes |-> <<>>]

tokens_peek_nth(t, n) == IF n < Len(t.tokens) THEN Some(t.tokens[n + 1]) ELSE None

tokens_peek(t) == tokens_peek_nth(t, 0)

\* consume: the list after the call and the token it returned
tokens_consume(t) ==
  IF t.tokens = <<>>
  THEN [t |-> t, tok |-> None]
  ELSE [t |-> [t EXCEPT !.tokens = Tail(t.tokens), !.removed = Some(Head(t.tokens))],
        tok |-> Some(Head(t.tokens))]

\* the list after one consume
Drop(t) == tokens_consume(t).t

is_empty(t) == t.tokens = <<>>

\* a parser result: ok with a value v, err with a diagnostic, panic for a Rust
\* panic (unwrap on None), overflow for an import nesting beyond MaxImportDepth;
\* t is the token list after the call
NoAst == [node |-> "-"]

POk(t, v) ==
  [kind |-> "ok", t |-> t, v |-> v, heading |-> "", msg |-> "", pos |-> CodePosDefault]

PErr(heading, msg, pos, t) ==
  [kind |-> "err", t |-> t, v |-> NoAst, heading |-> heading, msg |-> msg, pos |-> pos]

PPanic(t) ==
  [kind |-> "panic", t |-> t, v |-> NoAst, heading |-> "", msg |-> "panic",
   pos |-> CodePosDefault]

POverflow(t) ==
  [kind |-> "overflow", t |-> t, v |-> NoAst, heading |-> "", msg |-> "stack overflow",
   pos |-> CodePosDefault]

RECURSIVE optional_whitespace(_)
optional_whitespace(t) ==
  IF tokens_peek(t) # None /\ tokens_peek(t)[1].token_type = "Whitespace"
  THEN optional_whitespace(Drop(t))
  ELSE t

expect_whitespace(t) ==
  LET c == tokens_consume(t)
  IN IF c.tok = None
     THEN PErr("Unexpected EOF", "expected Whitespace", t.eof_loc, c.t)
     ELSE IF c.tok[1].token_type # "Whitespace"
     THEN PErr("Unexpected token", "expected Whitespace", c.tok[1].start, c.t)
     ELSE POk(optional_whitespace(c.t), c.tok[1])

expect(t, token_type) ==
  IF token_type = "Whitespace" THEN expect_whitespace(t)
  ELSE LET c == tokens_consume(optional_whitespace(t))
       IN IF c.tok = None
          THEN PErr("Unexpected EOF", "expected " \o token_type, t.eof_loc, c.t)
          ELSE IF c.tok[1].token_type # token_type
          THEN PErr("Unexpected token", "expected " \o token_type, c.tok[1].start, c.t)
          ELSE POk(c.t, c.tok[1])

\* Ok(Option<Token>)
optional_expect(t, token_type) ==
  IF token_type = "Whitespace"
  THEN IF tokens_peek(t) # None /\ tokens_peek(t)[1].token_type = "Whitespace"
       THEN POk(optional_whitespace(Drop(t)), tokens_peek(t))
       ELSE POk(t, None)
  ELSE LET t1 == optional_whitespace(t)
       IN IF tokens_peek(t1) = None THEN POk(t1, None)
          ELSE IF tokens_peek(t1)[1].token_type = token_type
          THEN POk(Drop(t1), tokens_peek(t1))
          ELSE POk(t1, None)

\* the op argument is not read by the code
expect_op(t, op) ==
  LET r == expect(t, "Operator")
  IN IF r.kind # "ok" THEN r ELSE POk(r.t, r.v.op[1])

\* Ok(Option<Operator>); the op argument is not read by the code
optional_op(t, op) ==
  LET r == optional_expect(t, "Operator")
  IN IF r.v # None THEN POk(r.t, Some(r.v[1].op[1])) ELSE POk(r.t, None)

next_is(t, tt) == tokens_peek(t) # None /\ tokens_peek(t)[1].token_type = tt

\* whether the next token that is not whitespace has kind tt; consumes nothing
next_after_ws(t, tt) == next_is(optional_whitespace(t), tt)

\* the start of the next token
peek_loc(t) == IF tokens_peek(t) = None THEN None ELSE Some(tokens_peek(t)[1].start)

(***************************************************************************)
(* The files a `use` can name (main.rs: validate_file, read_file).         *)
(***************************************************************************)
MainFile == <<"d", "/", "m", ".", "r", "o", "c", "k">>

OtherFile == <<"d", "/", "o", ".", "r", "o", "c", "k">>

\* two files that import each other
PingFile == <<"d", "/", "p", ".", "r", "o", "c", "k">>

PongFile == <<"d", "/", "q", ".", "r", "o", "c", "k">>

\* a regular file with no extension, and one with another extension
NoExtFile == <<"d", "/", "n">>

TextFile == <<"d", "/", "t", ".", "t", "x", "t">>

\* a directory whose name ends in .rock
DirFile == <<"d", "/", "s", ".", "r", "o", "c", "k">>

\* the regular files on disk, the directories, and the content of the files;
\* the main file holds the input the run was started on
Files == {MainFile, OtherFile, PingFile, PongFile, NoExtFile, TextFile}

Dirs == {<<"d">>, DirFile}

FileContent(path) ==
  CASE path = OtherFile -> <<"f", "n", " ", "f", "(", ")", "{", "}">>
    [] path = MainFile -> last.before.stream
    [] path = PingFile -> <<"u", "s", "e", " ", "\"", "q", ".", "r", "o", "c", "k", "\"">>
    [] path = PongFile -> <<"u", "s", "e", " ", "\"", "p", ".", "r", "o", "c", "k", "\"">>
    [] OTHER -> <<>>

SlashesIn(p) == {i \in 1..Len(p) : p[i] = "/"}

DotsIn(p) == {i \in 1..Len(p) : p[i] = "."}

MaxOf(S) == CHOOSE i \in S : \A j \in S : j <= i

\* Path::parent of a relative path
path_parent(p) ==
  IF p = <<>> THEN None
  ELSE IF SlashesIn(p) = {} THEN Some(<<>>)
  ELSE Some(SubSeq(p, 1, MaxOf(SlashesIn(p)) - 1))

\* Path::extension: what follows the last dot of the file name
path_extension(p) ==
  LET name == IF SlashesIn(p) = {} THEN p
              ELSE SubSeq(p, MaxOf(SlashesIn(p)) + 1, Len(p))
  IN IF DotsIn(name) = {} \/ MaxOf(DotsIn(name)) = 1 THEN None
     ELSE Some(SubSeq(name, MaxOf(DotsIn(name)) + 1, Len(name)))

\* "ok", "err" or "panic"
validate_file(file) ==
  IF file \notin Files \cup Dirs THEN "err"
  ELSE IF file \notin Files THEN "err"
  ELSE "ok"

validate_boulder_file(file) ==
  IF validate_file(file) # "ok" THEN "err"
  ELSE IF path_extension(file) = None THEN "panic"
  ELSE IF path_extension(file)[1] # <<"r", "o", "c", "k">> THEN "err"
  ELSE "ok"

read_file(path) == IF path \in Files THEN FileContent(path) ELSE <<>>

(***************************************************************************)
(* Statements (statement.rs) are records with a node field.                *)
(***************************************************************************)
Void == [node |-> "Void"]

NOP == [node |-> "NOP"]

Identifier(name) == [node |-> "Identifier", ident |-> name]

\* Number::new inside Statement::NumberLiteral
NumberLiteral(text, negative) ==
  [node |-> "NumberLiteral", value |-> [value |-> text, negative |-> negative]]

Block(exprs) == [node |-> "Block", exprs |-> exprs]

PostfixStmt(stack) == [node |-> "Postfix", postfix |-> stack]

\* ShuntedStackItem::new_operand and new_operator
new_operand(stmt) == [operator |-> None, operand |-> Some(stmt)]

new_operator(o) == [operator |-> Some(o), operand |-> None]

\* the deepest import nesting the model follows
MaxImportDepth == 2

(***************************************************************************)
(* Parser (parser.rs).                                                     *)
(***************************************************************************)
\* The functions of parser.rs call each other recursively.  A call from one of
\* them to another is written Invoke("f", <<args>>), so that the one recursive
\* operator of the parser is Invoke and TLC's coverage statistics stay linear
\* in the size of the module.
RECURSIVE Invoke(_, _)

parse_block(t) == Invoke("parse_block_loop", <<Drop(t), <<>>>>)

parse_block_loop(t, exprs) ==
  IF tokens_peek(t) = None THEN POk(t, Block(exprs))
  ELSE IF tokens_peek(t)[1].token_type = "Whitespace"
  THEN Invoke("parse_block_loop", <<Drop(t), exprs>>)
  ELSE IF tokens_peek(t)[1].token_type = "CloseBracket"
  THEN POk(Drop(t), Block(exprs))
  ELSE LET r == Invoke("parse_statement", <<t>>)
       IN IF r.kind # "ok" THEN r
          ELSE Invoke("parse_block_loop", <<r.t, Append(exprs, r.v)>>)

parse_array_dec(t, mods) ==
  LET a == expect(t, "OpenBracket")
      ty == Invoke("get_type", <<a.t, FALSE>>)
      n == expect(ty.t, "NOP")
      size == Invoke("parse_global", <<n.t>>)
      c == expect(size.t, "CloseBracket")
  IN IF a.kind # "ok" THEN a
     ELSE IF ty.kind # "ok" THEN ty
     ELSE IF n.kind # "ok" THEN n
     ELSE IF size.kind # "ok" THEN size
     ELSE IF c.kind # "ok" THEN c
     ELSE POk(c.t, [node |-> "ArrayType", array_type |-> ty.v, size |-> size.v,
                    modifiers |-> mods])

\* get_type after the optional colon: the modifier loop, then the type
get_type_from(t, modifiers) ==
  LET o == optional_expect(t, "Operator")
  IN IF o.v # None
     THEN IF o.v[1].op[1] = "And"
          THEN Invoke("get_type_from", <<o.t, Append(modifiers, [node |-> "Reference"])>>)
          ELSE IF o.v[1].op[1] = "Mul"
          THEN Invoke("get_type_from", <<o.t, Append(modifiers, [node |-> "Pointer"])>>)
          ELSE PErr("Expected &, *, [...], or nothing", "found an operator",
                    o.v[1].start, o.t)
     ELSE LET b == optional_expect(o.t, "OpenBracket")
              i == expect(b.t, "Ident")
          IN IF b.v # None THEN Invoke("parse_array_dec", <<b.t, modifiers>>)
             ELSE IF i.kind # "ok" THEN i
             ELSE IF i.v.value = None THEN PPanic(i.t)
             ELSE POk(i.t, [node |-> "Type", type_ident |-> Identifier(i.v.value[1]),
                            modifiers |-> modifiers])

get_type(t, expect_colon) ==
  IF expect_colon
  THEN LET c == expect(t, "Colon")
       IN IF c.kind # "ok" THEN c ELSE Invoke("get_type_from", <<c.t, <<>>>>)
  ELSE Invoke("get_type_from", <<t, <<>>>>)

\* the parameter loop of define_params, then the closing paren
define_params_loop(t, params) ==
  LET i == optional_expect(t, "Ident")
      close == expect(i.t, "CloseParen")
  IN IF i.v = None
     THEN IF close.kind # "ok" THEN close ELSE POk(close.t, params)
     ELSE LET ty == Invoke("get_type", <<i.t, TRUE>>)
              t1 == optional_whitespace(ty.t)
              a == optional_op(t1, "Assign")
              decl == [node |-> "Declaration", ident |-> Identifier(i.v[1].value[1]),
                       type_ident |-> Some(ty.v), value |-> None]
              comma == optional_expect(a.t, "Comma")
              close2 == expect(comma.t, "CloseParen")
          IN IF ty.kind # "ok" THEN ty
             ELSE IF is_empty(t1)
             THEN PErr("Expected parameter or closing ')'", "Found end of file",
                       t1.eof_loc, t1)
             ELSE IF a.v # None
             THEN PErr("Invalid Assignment",
                       "Default parameter values are not yet supported!",
                       peek_loc(t1)[1], a.t)
             ELSE IF comma.v # None
             THEN Invoke("define_params_loop", <<comma.t, Append(params, decl)>>)
             ELSE IF close2.kind # "ok" THEN close2
             ELSE POk(close2.t, Append(params, decl))

define_params(t) ==
  LET o == expect(t, "OpenParen")
  IN IF o.kind # "ok" THEN o ELSE Invoke("define_params_loop", <<o.t, <<>>>>)

parse_fn(t) ==
  LET w == expect_whitespace(Drop(t))
      name == expect(w.t, "Ident")
      params == Invoke("define_params", <<name.t>>)
      m == optional_op(params.t, "Move")
      rt == Invoke("get_type", <<m.t, FALSE>>)
      body == Invoke("parse_statement", <<IF m.v # None THEN rt.t ELSE m.t>>)
  IN IF w.kind # "ok" THEN w
     ELSE IF name.kind # "ok" THEN name
     ELSE IF params.kind # "ok" THEN params
     ELSE IF m.v # None /\ rt.kind # "ok" THEN rt
     ELSE IF body.kind # "ok" THEN body
     ELSE POk(body.t, [node |-> "Fn", ident |-> Identifier(name.v.value[1]),
                       params |-> params.v,
                       return_type |-> IF m.v # None THEN rt.v ELSE Void,
                       body |-> body.v])

parse_declaration(t) ==
  LET w == expect_whitespace(Drop(t))
      ident == expect(w.t, "Ident")
      colon == optional_expect(ident.t, "Colon")
      ty == Invoke("get_type", <<colon.t, FALSE>>)
      a == optional_op(ty.t, "Assign")
      val == Invoke("parse_statement", <<a.t>>)
  IN IF w.kind # "ok" THEN w
     ELSE IF ident.kind # "ok" THEN ident
     ELSE IF colon.v = None
     THEN IF tokens_peek(colon.t) = None THEN PPanic(colon.t)
          ELSE PErr("Inferred types are not yet implemented!",
                    "Variable types must be defined!",
                    tokens_peek(colon.t)[1].start, colon.t)
     ELSE IF ty.kind # "ok" THEN ty
     ELSE IF a.v # None /\ val.kind # "ok" THEN val
     ELSE POk(IF a.v # None THEN val.t ELSE a.t,
              [node |-> "Declaration", ident |-> Identifier(ident.v.value[1]),
               type_ident |-> Some(ty.v),
               value |-> IF a.v # None THEN Some(val.v) ELSE None])

\* the path parse_use hands to validate_boulder_file; None when parent() is None
use_path(file) ==
  IF file.start.file = None THEN Some(file.value[1])
  ELSE IF path_parent(file.start.file[1]) = None THEN None
  ELSE Some(path_parent(file.start.file[1])[1] \o <<"/">> \o file.value[1])

\* Ok(Statement::Use { exprs }) around the result body of parse_file
use_exprs(file, body) ==
  IF body.kind # "ok" THEN [body EXCEPT !.t = file.t]
  ELSE POk(file.t, [node |-> "Use", exprs |-> body.v])

\* an import that parses nothing inside a file that is itself imported
use_tokens_one_level(t, file, lexed) ==
  IF lexed.kind # "ok" THEN PErr(lexed.heading, lexed.msg, lexed.pos, file.t)
  ELSE IF t.depth + 1 > 1 THEN POk(file.t, [node |-> "Use", exprs |-> <<>>])
  ELSE use_exprs(file, Invoke("parse_file_loop",
                              <<TokenListNew(lexed.tokens, t.depth + 1), <<>>>>))

\* parse_use once the imported file was read and lexed
use_tokens(t, file, lexed) ==
  IF lexed.kind # "ok" THEN PErr(lexed.heading, lexed.msg, lexed.pos, file.t)
  ELSE IF t.depth + 1 > MaxImportDepth THEN POverflow(file.t)
  ELSE use_exprs(file, Invoke("parse_file_loop",
                              <<TokenListNew(lexed.tokens, t.depth + 1), <<>>>>))

parse_use(t) ==
  LET w == expect_whitespace(Drop(t))
      file == expect(w.t, "StringLit")
      path == use_path(file.v)
      valid == validate_boulder_file(path[1])
  IN IF w.kind # "ok" THEN w
     ELSE IF file.kind # "ok" THEN file
     ELSE IF path = None THEN PPanic(file.t)
     ELSE IF valid = "panic" THEN PPanic(file.t)
     ELSE IF valid = "err"
     THEN PErr("Invalid boulder file import", "invalid file", file.v.start, file.t)
     ELSE use_tokens(t, file, lex(InputReaderNew(Some(path[1]), read_file(path[1]))))

parse_if(t) ==
  LET cond == Invoke("parse_statement", <<Drop(t)>>)
      body == Invoke("parse_statement", <<cond.t>>)
      els == Invoke("parse_statement", <<Drop(body.t)>>)
  IN IF cond.kind # "ok" THEN cond
     ELSE IF body.kind # "ok" THEN body
     ELSE IF next_is(body.t, "Else")
     THEN IF els.kind # "ok" THEN els
          ELSE POk(els.t, [node |-> "If", condition |-> cond.v, body |-> body.v,
                           else_statement |-> Some(els.v)])
     ELSE POk(body.t, [node |-> "If", condition |-> cond.v, body |-> body.v,
                       else_statement |-> None])

parse_while(t) ==
  LET cond == Invoke("parse_statement", <<Drop(t)>>)
      body == Invoke("parse_statement", <<cond.t>>)
  IN IF cond.kind # "ok" THEN cond
     ELSE IF body.kind # "ok" THEN body
     ELSE POk(body.t, [node |-> "While", condition |-> cond.v, body |-> body.v])

parse_loop(t) ==
  LET body == Invoke("parse_statement", <<Drop(t)>>)
  IN IF body.kind # "ok" THEN body
     ELSE POk(body.t, [node |-> "Loop", body |-> body.v])

parse_for(t) ==
  LET ident == Invoke("parse_statement", <<Drop(t)>>)
      in == expect(ident.t, "In")
      collection == Invoke("parse_statement", <<in.t>>)
      body == Invoke("parse_statement", <<collection.t>>)
  IN IF ident.kind # "ok" THEN ident
     ELSE IF in.kind # "ok" THEN in
     ELSE IF collection.kind # "ok" THEN collection
     ELSE IF body.kind # "ok" THEN body
     ELSE POk(body.t, [node |-> "For", ident |-> ident.v,
                       collection |-> collection.v, body |-> body.v])

parse_return(t) ==
  LET t1 == Drop(t)
      w == expect_whitespace(t1)
      val == Invoke("parse_statement", <<w.t>>)
  IN IF next_after_ws(t1, "CloseBracket")
     THEN POk(optional_whitespace(t1), [node |-> "Return", value |-> Void])
     ELSE IF w.kind # "ok" THEN w
     ELSE IF val.kind # "ok" THEN val
     ELSE POk(val.t, [node |-> "Return", value |-> val.v])

parse_fn_call_loop(t, ident, params) ==
  IF tokens_peek(t) = None
  THEN POk(t, [node |-> "FnCall", ident |-> ident, params |-> params])
  ELSE IF tokens_peek(t)[1].token_type = "CloseParen"
  THEN POk(Drop(t), [node |-> "FnCall", ident |-> ident, params |-> params])
  ELSE LET p == Invoke("parse_statement", <<t>>)
           comma == optional_expect(p.t, "Comma")
           close == expect(comma.t, "CloseParen")
       IN IF p.kind # "ok" THEN p
          ELSE IF comma.v # None
          THEN Invoke("parse_fn_call_loop", <<comma.t, ident, Append(params, p.v)>>)
          ELSE IF close.kind # "ok" THEN close
          ELSE POk(close.t, [node |-> "FnCall", ident |-> ident,
                             params |-> Append(params, p.v)])

parse_fn_call(t, ident) == Invoke("parse_fn_call_loop", <<Drop(t), ident, <<>>>>)

parse_property(t, accessed) ==
  LET property == Invoke("parse_identifier", <<Drop(t), TRUE>>)
      expr == [node |-> "PropertyAccess", expr |-> accessed, property |-> property.v]
  IN IF property.kind # "ok" THEN property
     ELSE IF next_is(property.t, "Dot") THEN Invoke("parse_property", <<property.t, expr>>)
     ELSE POk(property.t, expr)

parse_index(t, accessed) ==
  LET t1 == Drop(t)
      index == Invoke("parse_statement", <<t1>>)
      close == expect(index.t, "CloseBrace")
  IN IF tokens_peek(t1) = None
     THEN PErr("Expected closing ']'", "found end of file", t1.eof_loc, t1)
     ELSE IF index.kind # "ok" THEN index
     ELSE IF close.kind # "ok" THEN close
     ELSE POk(close.t, [node |-> "ArrayAccess", ident |-> accessed, index |-> index.v])

parse_assert(t) ==
  LET assertion == Invoke("parse_statement", <<Drop(t)>>)
  IN IF assertion.kind # "ok" THEN assertion
     ELSE POk(assertion.t, [node |-> "Assert", expr |-> assertion.v])

\* a result of the op_stack loops of shunting_yard
SOk(op_stack, postfix, found) ==
  [kind |-> "ok", op_stack |-> op_stack, postfix |-> postfix, found |-> found,
   pos |-> CodePosDefault]

SErr(pos) ==
  [kind |-> "err", op_stack |-> <<>>, postfix |-> <<>>, found |-> FALSE, pos |-> pos]

OpStackError == "unexpected error found in op_stack during shunting yard algorithm"

\* a leading-operator decoder that lets every other operator pass
parse_shunting_yard_leading_op_lenient(op, postfix) ==
  CASE op.op[1] = "Sub" -> [kind |-> "ok", negative |-> TRUE, postfix |-> postfix]
    [] op.op[1] = "Inc" ->
         [kind |-> "ok", negative |-> FALSE,
          postfix |-> postfix \o <<new_operator("Add"),
                                   new_operand(NumberLiteral(<<"1">>, FALSE))>>]
    [] op.op[1] = "Dec" ->
         [kind |-> "ok", negative |-> FALSE,
          postfix |-> postfix \o <<new_operator("Sub"),
                                   new_operand(NumberLiteral(<<"1">>, FALSE))>>]
    [] OTHER -> [kind |-> "ok", negative |-> FALSE, postfix |-> postfix]

\* Ok(negative) with the postfix stack after the call, or the error
parse_shunting_yard_leading_op(op, postfix) ==
  CASE op.op[1] = "Sub" -> [kind |-> "ok", negative |-> TRUE, postfix |-> postfix]
    [] op.op[1] = "Inc" ->
         [kind |-> "ok", negative |-> FALSE,
          postfix |-> postfix \o <<new_operator("Add"),
                                   new_operand(NumberLiteral(<<"1">>, FALSE))>>]
    [] op.op[1] = "Dec" ->
         [kind |-> "ok", negative |-> FALSE,
          postfix |-> postfix \o <<new_operator("Sub"),
                                   new_operand(NumberLiteral(<<"1">>, FALSE))>>]
    [] OTHER -> [kind |-> "err", negative |-> FALSE, postfix |-> postfix]

LeadingOpErr(op, t) ==
  PErr("Unexpected operator", "found binary operator after another binary operator",
       op.start, t)

\* the usual left-associative rule: equal precedence pops as well
keeps_on_stack_lower_only(o2, operator) == precedence(o2) < precedence(operator)

\* whether the operator o2 on top of the stack stays there when operator arrives
keeps_on_stack(o2, operator) == precedence(o2) <= precedence(operator)

\* the `while let Some(o2_token) = op_stack.last()` loop of the operator branch
RECURSIVE pop_for_operator(_, _, _)
pop_for_operator(op_stack, postfix, operator) ==
  IF op_stack = <<>> THEN SOk(op_stack, postfix, FALSE)
  ELSE LET o2_token == op_stack[Len(op_stack)]
       IN IF o2_token.token_type = "OpenParen" THEN SOk(op_stack, postfix, FALSE)
          ELSE IF o2_token.token_type # "Operator" THEN SErr(o2_token.start)
          ELSE IF keeps_on_stack(o2_token.op[1], operator)
          THEN SOk(op_stack, postfix, FALSE)
          ELSE pop_for_operator(SubSeq(op_stack, 1, Len(op_stack) - 1),
                                Append(postfix, new_operator(o2_token.op[1])),
                                operator)

\* a CloseParen loop whose kind check takes an operator for a foreign token
RECURSIVE pop_for_close_expects_open(_, _, _)
pop_for_close_expects_open(op_stack, postfix, at) ==
  IF op_stack = <<>> THEN SOk(op_stack, postfix, FALSE)
  ELSE LET op == op_stack[Len(op_stack)]
           rest == SubSeq(op_stack, 1, Len(op_stack) - 1)
       IN IF op.token_type = "OpenParen" THEN SOk(rest, postfix, TRUE)
          ELSE SErr(at)

\* the `while let Some(op) = op_stack.pop()` loop of the CloseParen branch
RECURSIVE pop_for_close(_, _, _)
pop_for_close(op_stack, postfix, at) ==
  IF op_stack = <<>> THEN SOk(op_stack, postfix, FALSE)
  ELSE LET op == op_stack[Len(op_stack)]
           rest == SubSeq(op_stack, 1, Len(op_stack) - 1)
       IN IF op.token_type = "OpenParen" THEN SOk(rest, postfix, TRUE)
          ELSE IF op.token_type # "Operator" THEN SErr(at)
          ELSE pop_for_close(rest, Append(postfix, new_operator(op.op[1])), at)

\* a drain that drops an open parenthesis instead of reporting it
RECURSIVE drain_op_stack_drops_open(_, _, _)
drain_op_stack_drops_open(t, op_stack, postfix) ==
  IF op_stack = <<>> THEN POk(t, PostfixStmt(postfix))
  ELSE LET op == op_stack[Len(op_stack)]
       IN IF op.token_type = "OpenParen"
          THEN drain_op_stack_drops_open(t, SubSeq(op_stack, 1, Len(op_stack) - 1),
                                         postfix)
          ELSE drain_op_stack_drops_open(t, SubSeq(op_stack, 1, Len(op_stack) - 1),
                                         Append(postfix, new_operator(op.op[1])))

\* the loop after the main loop: what is left on op_stack goes to postfix
RECURSIVE drain_op_stack(_, _, _)
drain_op_stack(t, op_stack, postfix) ==
  IF op_stack = <<>> THEN POk(t, PostfixStmt(postfix))
  ELSE LET op == op_stack[Len(op_stack)]
       IN IF op.token_type = "OpenParen"
          THEN PErr("Open found with no close", "mismatched parentheses", op.start, t)
          ELSE IF op.token_type # "Operator"
          THEN IF tokens_peek(t) = None THEN PPanic(t)
               ELSE PErr("", OpStackError, tokens_peek(t)[1].start, t)
          ELSE drain_op_stack(t, SubSeq(op_stack, 1, Len(op_stack) - 1),
                              Append(postfix, new_operator(op.op[1])))

\* the end of the main loop: op_stack is what the drain starts from
drain_remaining(t, op_stack, postfix) ==
  drain_op_stack([t EXCEPT !.drained = Some(op_stack)], op_stack, postfix)

\* op_stack.push(token): the token list remembers the kind of the token
op_stack_push(t, token) == [t EXCEPT !.pushed = @ \cup {token.token_type}]

\* the operator branch of the main loop, after the token was consumed
shunting_yard_operator(t, token, postfix, op_stack, last_op, negative) ==
  LET operator == token.op[1]
      lead == parse_shunting_yard_leading_op(token, postfix)
      popped == pop_for_operator(op_stack, postfix, operator)
  IN IF last_op # None
     THEN IF lead.kind # "ok" THEN LeadingOpErr(token, t)
          ELSE Invoke("shunting_yard_loop", <<t, lead.postfix, op_stack, Some(operator),
                                  lead.negative>>)
     ELSE IF operator = "Inc" \/ operator = "Dec"
     THEN Invoke("shunting_yard_loop", <<t, Append(postfix, new_operator(operator)), op_stack,
                             last_op, negative>>)
     ELSE IF popped.kind # "ok" THEN PErr("", OpStackError, popped.pos, t)
     ELSE Invoke("shunting_yard_loop", <<op_stack_push(t, token), popped.postfix,
                             Append(popped.op_stack, token), Some(operator),
                             negative>>)

\* the `break` of the CloseParen branch: the list remembers its next token,
\* the operator stack the branch started from and the postfix stack it leaves
close_without_open(t, pending, postfix) ==
  [t EXCEPT !.closes = Append(@, [next |-> tokens_peek(t), pending |-> pending,
                                  postfix |-> postfix])]

\* a CloseParen branch that takes the `)` off the list before it stops
shunting_yard_close_consumes(t, token, postfix, op_stack) ==
  LET popped == pop_for_close(op_stack, postfix, token.start)
  IN IF popped.kind # "ok" THEN PErr("", OpStackError, popped.pos, t)
     ELSE IF ~popped.found
     THEN drain_remaining(close_without_open(Drop(t), op_stack, popped.postfix),
                          popped.op_stack, popped.postfix)
     ELSE Invoke("shunting_yard_loop", <<Drop(t), popped.postfix, popped.op_stack,
                             None, FALSE>>)

\* the CloseParen branch of the main loop; token is the `)`, still on the list
shunting_yard_close(t, token, postfix, op_stack) ==
  LET popped == pop_for_close(op_stack, postfix, token.start)
  IN IF popped.kind # "ok" THEN PErr("", OpStackError, popped.pos, t)
     ELSE IF ~popped.found
     THEN drain_remaining(close_without_open(t, op_stack, popped.postfix),
                          popped.op_stack, popped.postfix)
     ELSE Invoke("shunting_yard_loop", <<Drop(t), popped.postfix, popped.op_stack,
                             None, FALSE>>)

\* the main loop of shunting_yard and the drain that follows it
shunting_yard_loop(t, postfix, op_stack, last_op, negative) ==
  IF tokens_peek(t) = None THEN drain_remaining(t, op_stack, postfix)
  ELSE LET token == tokens_peek(t)[1]
           tt == token.token_type
       IN CASE tt = "NumberLit" ->
                 Invoke("shunting_yard_loop", <<
                   Drop(t),
                   Append(postfix, new_operand(NumberLiteral(token.value[1], negative))),
                   op_stack, None, FALSE>>)
            [] tt = "Ident" ->
                 LET stmt == Invoke("parse_identifier", <<t, FALSE>>)
                 IN IF stmt.kind # "ok" THEN stmt
                    ELSE Invoke("shunting_yard_loop", <<stmt.t, Append(postfix, new_operand(stmt.v)),
                                            op_stack, None, FALSE>>)
            [] tt = "Operator" ->
                 Invoke("shunting_yard_operator", <<Drop(t), token, postfix, op_stack, last_op,
                                        negative>>)
            [] tt = "OpenParen" ->
                 Invoke("shunting_yard_loop", <<op_stack_push(Drop(t), token), postfix,
                                    Append(op_stack, token), Some("AddAssign"),
                                    negative>>)
            [] tt = "CloseParen" ->
                 Invoke("shunting_yard_close", <<t, token, postfix, op_stack>>)
            [] tt = "Whitespace" ->
                 Invoke("shunting_yard_loop", <<Drop(t), postfix, op_stack, last_op, negative>>)
            [] OTHER -> drain_remaining(t, op_stack, postfix)

shunting_yard(t, unary_start, leading) ==
  LET postfix == IF leading # None THEN <<new_operand(leading[1])>> ELSE <<>>
      op == expect(t, "Operator")
      lead == parse_shunting_yard_leading_op(op.v, postfix)
  IN IF unary_start
     THEN IF op.kind # "ok" THEN op
          ELSE IF lead.kind # "ok" THEN LeadingOpErr(op.v, op.t)
          ELSE Invoke("shunting_yard_loop", <<op.t, lead.postfix, <<>>, None, lead.negative>>)
     ELSE Invoke("shunting_yard_loop", <<t, postfix, <<>>, None, FALSE>>)

parse_number_lit(t) ==
  LET c == tokens_consume(t)
      number == NumberLiteral(c.tok[1].value[1], FALSE)
      t1 == optional_whitespace(c.t)
      next == tokens_peek(t1)
      first == Invoke("parse_property", <<t1, number>>)
  IN IF next # None /\ next[1].token_type = "Dot"
     THEN IF first.kind # "ok" THEN first
          ELSE Invoke("parse_property", <<first.t, first.v>>)
     ELSE Invoke("shunting_yard", <<t1, FALSE, Some(number)>>)

\* Ok(Option<Statement>)
parse_ident_statement(t, left, shunt) ==
  LET t1 == optional_whitespace(t)
      tt == tokens_peek(t1)[1].token_type
      wrap(r) == IF r.kind # "ok" THEN r ELSE POk(r.t, Some(r.v))
  IN IF tokens_peek(t1) = None THEN POk(t1, None)
     ELSE CASE tt = "OpenParen" -> wrap(Invoke("parse_fn_call", <<t1, left>>))
            [] tt = "OpenBrace" -> wrap(Invoke("parse_index", <<t1, left>>))
            [] tt = "Dot" -> wrap(Invoke("parse_property", <<t1, left>>))
            [] tt = "Operator" /\ shunt -> wrap(Invoke("shunting_yard", <<t1, FALSE, Some(left)>>))
            [] OTHER -> POk(t1, None)

parse_identifier_loop(t, expr, shunt) ==
  LET r == Invoke("parse_ident_statement", <<t, expr, shunt>>)
  IN IF r.kind # "ok" THEN r
     ELSE IF r.v = None THEN POk(r.t, expr)
     ELSE Invoke("parse_identifier_loop", <<r.t, r.v[1], shunt>>)

parse_identifier(t, shunt) ==
  LET c == tokens_consume(t)
  IN IF c.tok = None THEN PPanic(c.t)
     ELSE IF c.tok[1].value = None THEN PPanic(c.t)
     ELSE Invoke("parse_identifier_loop", <<optional_whitespace(c.t),
                                Identifier(c.tok[1].value[1]), shunt>>)

parse_panic(t) ==
  LET t1 == Drop(t)
      val == Invoke("parse_statement", <<t1>>)
  IN IF next_after_ws(t1, "CloseParen")
     THEN POk(optional_whitespace(t1), [node |-> "Panic", value |-> Void])
     ELSE IF val.kind # "ok" THEN val
     ELSE POk(val.t, [node |-> "Panic", value |-> val.v])

ret(t, expr) == POk(Drop(t), expr)

ExpectedExpression(t) ==
  PErr("Expected an expression", "found: " \o tokens_peek(t)[1].token_type,
       tokens_peek(t)[1].start, t)

ReachedEof(t) ==
  PErr("", "Reached end of file without finding an expression!", t.eof_loc, t)

\* statements inside of blocks
parse_statement(t0) ==
  IF tokens_peek(t0) = None THEN ReachedEof(t0)
  ELSE LET t == optional_whitespace(t0)
           tt == tokens_peek(t)[1].token_type
       IN IF tokens_peek(t) = None THEN PPanic(t)
          ELSE CASE tt = "OpenBracket" -> Invoke("parse_block", <<t>>)
                 [] tt = "OpenParen" -> Invoke("shunting_yard", <<t, FALSE, None>>)
                 [] tt = "Let" -> Invoke("parse_declaration", <<t>>)
                 [] tt = "If" -> Invoke("parse_if", <<t>>)
                 [] tt = "While" -> Invoke("parse_while", <<t>>)
                 [] tt = "Loop" -> Invoke("parse_loop", <<t>>)
                 [] tt = "For" -> Invoke("parse_for", <<t>>)
                 [] tt = "Assert" -> Invoke("parse_assert", <<t>>)
                 [] tt = "Return" -> Invoke("parse_return", <<t>>)
                 [] tt = "NumberLit" -> Invoke("parse_number_lit", <<t>>)
                 [] tt = "Ident" -> Invoke("parse_identifier", <<t, TRUE>>)
                 [] tt = "Operator" -> Invoke("shunting_yard", <<t, TRUE, None>>)
                 [] tt = "Panic" -> Invoke("parse_panic", <<t>>)
                 [] tt = "BoolTrue" -> ret(t, [node |-> "BoolLiteral", value |-> TRUE])
                 [] tt = "BoolFalse" -> ret(t, [node |-> "BoolLiteral", value |-> FALSE])
                 [] tt = "BinLit" ->
                      POk(Drop(t), [node |-> "BinaryLiteral",
                                    value |-> tokens_peek(t)[1].value[1]])
                 [] tt = "HexLit" ->
                      POk(Drop(t), [node |-> "HexLiteral",
                                    value |-> tokens_peek(t)[1].value[1]])
                 [] tt = "NOP" -> ret(t, NOP)
                 [] tt = "StringLit" ->
                      POk(Drop(t), [node |-> "StringLiteral",
                                    value |-> tokens_peek(t)[1].value[1]])
                 [] OTHER -> ExpectedExpression(t)

\* a top-level block, as the commented-out arm of parse_global had it
parse_global_with_blocks(t0) ==
  IF tokens_peek(t0) = None THEN ReachedEof(t0)
  ELSE LET t == optional_whitespace(t0)
           tt == tokens_peek(t)[1].token_type
       IN IF tokens_peek(t) = None THEN PPanic(t)
          ELSE CASE tt = "OpenBracket" -> Invoke("parse_block", <<t>>)
                 [] tt = "Fn" -> Invoke("parse_fn", <<t>>)
                 [] tt = "NOP" -> ret(t, NOP)
                 [] tt = "Use" -> Invoke("parse_use", <<t>>)
                 [] OTHER -> ExpectedExpression(t)

\* expressions outside of blocks
parse_global(t0) ==
  IF tokens_peek(t0) = None THEN ReachedEof(t0)
  ELSE LET t == optional_whitespace(t0)
           tt == tokens_peek(t)[1].token_type
       IN IF tokens_peek(t) = None THEN PPanic(t)
          ELSE CASE tt = "Fn" -> Invoke("parse_fn", <<t>>)
                 [] tt = "NOP" -> ret(t, NOP)
                 [] tt = "Use" -> Invoke("parse_use", <<t>>)
                 [] OTHER -> ExpectedExpression(t)

\* parse_file that leaves the EOF token in the list when it stops
parse_file_loop_keeps_eof(t, expressions) ==
  IF tokens_peek(t) = None THEN POk(t, expressions)
  ELSE IF tokens_peek(t)[1].token_type = "Whitespace"
  THEN Invoke("parse_file_loop", <<Drop(t), expressions>>)
  ELSE IF tokens_peek(t)[1].token_type = "EOF"
  THEN POk(t, expressions)
  ELSE LET r == Invoke("parse_global", <<t>>)
       IN IF r.kind # "ok" THEN r
          ELSE Invoke("parse_file_loop", <<r.t, Append(expressions, r.v)>>)

\* the loop of parse_file; v is the Vec<Statement>
parse_file_loop(t, expressions) ==
  IF tokens_peek(t) = None THEN POk(t, expressions)
  ELSE IF tokens_peek(t)[1].token_type = "Whitespace"
  THEN Invoke("parse_file_loop", <<Drop(t), expressions>>)
  ELSE IF tokens_peek(t)[1].token_type = "EOF"
  THEN POk([Drop(t) EXCEPT !.eof_at_top = TRUE], expressions)
  ELSE LET r == Invoke("parse_global", <<t>>)
       IN IF r.kind # "ok" THEN r
          ELSE Invoke("parse_file_loop", <<r.t, Append(expressions, r.v)>>)

\* the function named f applied to the arguments a
Invoke(f, a) ==
  CASE f = "parse_block" -> parse_block(a[1])
    [] f = "parse_block_loop" -> parse_block_loop(a[1], a[2])
    [] f = "parse_array_dec" -> parse_array_dec(a[1], a[2])
    [] f = "get_type_from" -> get_type_from(a[1], a[2])
    [] f = "get_type" -> get_type(a[1], a[2])
    [] f = "define_params_loop" -> define_params_loop(a[1], a[2])
    [] f = "define_params" -> define_params(a[1])
    [] f = "parse_fn" -> parse_fn(a[1])
    [] f = "parse_declaration" -> parse_declaration(a[1])
    [] f = "parse_use" -> parse_use(a[1])
    [] f = "parse_if" -> parse_if(a[1])
    [] f = "parse_while" -> parse_while(a[1])
    [] f = "parse_loop" -> parse_loop(a[1])
    [] f = "parse_for" -> parse_for(a[1])
    [] f = "parse_return" -> parse_return(a[1])
    [] f = "parse_fn_call_loop" -> parse_fn_call_loop(a[1], a[2], a[3])
    [] f = "parse_fn_call" -> parse_fn_call(a[1], a[2])
    [] f = "parse_property" -> parse_property(a[1], a[2])
    [] f = "parse_index" -> parse_index(a[1], a[2])
    [] f = "parse_assert" -> parse_assert(a[1])
    [] f = "shunting_yard_operator" -> shunting_yard_operator(a[1], a[2], a[3], a[4], a[5], a[6])
    [] f = "shunting_yard_close" -> shunting_yard_close(a[1], a[2], a[3], a[4])
    [] f = "shunting_yard_loop" -> shunting_yard_loop(a[1], a[2], a[3], a[4], a[5])
    [] f = "shunting_yard" -> shunting_yard(a[1], a[2], a[3])
    [] f = "parse_number_lit" -> parse_number_lit(a[1])
    [] f = "parse_ident_statement" -> parse_ident_statement(a[1], a[2], a[3])
    [] f = "parse_identifier_loop" -> parse_identifier_loop(a[1], a[2], a[3])
    [] f = "parse_identifier" -> parse_identifier(a[1], a[2])
    [] f = "parse_panic" -> parse_panic(a[1])
    [] f = "parse_statement" -> parse_statement(a[1])
    [] f = "parse_global" -> parse_global(a[1])
    [] f = "parse_file_loop" -> parse_file_loop(a[1], a[2])

parse_file(t) == Invoke("parse_file_loop", <<t, <<>>>>)

\* Ok(Statement::Program { exprs }) around the result r of parse_file
Program(r) ==
  IF r.kind # "ok" THEN r ELSE POk(r.t, [node |-> "Program", exprs |-> r.v])

parse(t) == Program(parse_file(t))

(***************************************************************************)
(* The checked inputs.                                                     *)
(***************************************************************************)
\* the characters of the reader runs and of the lexer runs
ReaderAlphabet == {"a", " ", "\n"}

LexAlphabet == {"<", ">", "=", "\"", "/", "*", ".", "a", "1", " ", "\n", "\r", "#"}

\* the concatenation of a sequence of strings
RECURSIVE Concat(_)
Concat(ss) == IF ss = <<>> THEN <<>> ELSE Head(ss) \o Concat(Tail(ss))

\* the words the checked programs are made of
WFn == <<"f", "n", " ", "a", "(", ")">>

WUse == <<"u", "s", "e", " ", "\"", "o", ".", "r", "o", "c", "k", "\"">>

WReturn == <<"r", "e", "t", "u", "r", "n", " ">>

ProgramWords ==
  {WFn, WUse, WReturn, <<"{">>, <<"}">>, <<";">>, <<" ">>, <<"a">>, <<"1">>, <<".">>,
   <<"(">>, <<")">>, <<"+">>}

\* the words of the checked expressions, each parsed as the body of `fn a()`
ExprWords == {<<"a">>, <<"1">>, <<"+">>, <<"-">>, <<"*">>, <<"=">>, <<"+", "+">>}


NoErr == [heading |-> "", msg |-> "", pos |-> CodePosDefault]

\* the last call made on the reader: what was called, what it returned and the
\* reader it was called on
NoCall ==
  [op |-> "none", ret |-> None, before |-> InputReaderNew(NoFile, <<>>),
   eof_at_top |-> FALSE, drained |-> None, pushed |-> {}, closes |-> <<>>]

Call(op, result, before) ==
  [op |-> op, ret |-> result, before |-> before, eof_at_top |-> FALSE,
   drained |-> None, pushed |-> {}, closes |-> <<>>]

Start(input, st) ==
  /\ reader = InputReaderNew(NoFile, input)
  /\ consumed = <<>>
  /\ last = NoCall
  /\ tokens = <<>>
  /\ spans = <<>>
  /\ status = st
  /\ err = NoErr
  /\ ast = NoAst

\* what a step that moved the reader from r to r2 has consumed
Eaten(r, r2) == SubSeq(r.stream, 1, Len(r.stream) - Len(r2.stream))

(***************************************************************************)
(* The input reader alone: a caller that keeps calling consume.            *)
(***************************************************************************)
InitReader ==
  \E k \in 0..MaxReaderLen : \E input \in [1..k -> ReaderAlphabet] : Start(input, "reading")

ReaderConsume ==
  /\ status = "reading"
  /\ LET c == consume(reader)
     IN /\ reader' = c.r
        /\ consumed' = consumed \o c.ch
        /\ last' = Call("consume", c.ch, reader)
  /\ UNCHANGED <<tokens, spans, status, err, ast>>

NextReader == ReaderConsume

SpecReader == InitReader /\ [][NextReader]_vars

(***************************************************************************)
(* lex: one iteration of its loop per step, then the EOF token.            *)
(***************************************************************************)
InitLex == \E k \in 0..MaxLen : \E input \in [1..k -> LexAlphabet] : Start(input, "lexing")

LexStep ==
  /\ status = "lexing"
  /\ peek(reader) # None
  /\ LET t == next_token(reader)
     IN /\ reader' = t.r
        /\ consumed' = consumed \o Eaten(reader, t.r)
        /\ IF t.kind = "err"
           THEN /\ status' = "lex_err"
                /\ err' = [heading |-> t.heading, msg |-> t.msg, pos |-> t.pos]
                /\ tokens' = <<>>
                /\ spans' = <<>>
           ELSE /\ tokens' = Append(tokens, t.tok)
                /\ spans' = Append(spans, Eaten(reader, t.r))
                /\ UNCHANGED <<status, err>>
  /\ last' = Call("next_token", None, reader)
  /\ UNCHANGED ast

LexEof ==
  /\ status = "lexing"
  /\ peek(reader) = None
  /\ tokens' = Append(tokens, EofToken(reader))
  /\ spans' = Append(spans, <<>>)
  /\ status' = "lexed"
  /\ last' = Call("eof", None, reader)
  /\ UNCHANGED <<reader, consumed, err, ast>>

NextLex == LexStep \/ LexEof

SpecLex == InitLex /\ [][NextLex]_vars

(***************************************************************************)
(* The lexer as a loop that runs: lex calls next_token while the reader    *)
(* has a character, so a step that can be taken is taken.                  *)
(***************************************************************************)
MaxFairLen == 3

FairAlphabet == {"\"", "/", "*", "1", ".", "a", "#"}

InitLexFair ==
  \E k \in 0..MaxFairLen : \E input \in [1..k -> FairAlphabet] : Start(input, "lexing")

NextLexFair == LexStep \/ LexEof

FairSpecLex == InitLexFair /\ [][NextLexFair]_vars /\ WF_vars(NextLexFair)

(***************************************************************************)
(* parse, applied to the token list lex returns for a whole file.          *)
(***************************************************************************)
\* main has read the file into an InputReader
Loaded(input) ==
  /\ reader = InputReaderNew(Some(MainFile), input)
  /\ consumed = <<>>
  /\ last = NoCall
  /\ tokens = <<>>
  /\ spans = <<>>
  /\ status = "loaded"
  /\ err = NoErr
  /\ ast = NoAst

Init == \E k \in 0..MaxWords : \E ws \in [1..k -> ProgramWords] : Loaded(Concat(ws))

InitExpr ==
  \E k \in 0..MaxExprWords : \E ws \in [1..k -> ExprWords] : Loaded(WFn \o Concat(ws))

\* lex(&mut input_reader), the whole call
LexFile ==
  /\ status = "loaded"
  /\ \E l \in {lex(reader)} :
        /\ reader' = l.r
        /\ consumed' = Eaten(reader, l.r)
        /\ tokens' = l.tokens
        /\ status' = (IF l.kind = "ok" THEN "lexed" ELSE "lex_err")
        /\ err' = [heading |-> l.heading, msg |-> l.msg, pos |-> l.pos]
        /\ last' = Call("lex", None, reader)
  /\ UNCHANGED <<spans, ast>>

ParseStatus(kind) ==
  CASE kind = "ok" -> "parsed"
    [] kind = "err" -> "parse_err"
    [] kind = "panic" -> "parse_panic"
    [] OTHER -> "parse_overflow"

\* parse(&mut tokens): last.ret is the token the last consume removed,
\* last.eof_at_top whether parse_file itself consumed the EOF token,
\* last.drained the operator stack the last shunting_yard had to drain,
\* last.pushed the kinds of the tokens that were pushed on an operator stack,
\* and last.closes the stops of shunting_yard at a `)` without its `(`
ParseStep ==
  /\ status = "lexed"
  /\ \E r \in {parse(TokenListNew(tokens, 0))} :
        /\ status' = ParseStatus(r.kind)
        /\ tokens' = r.t.tokens
        /\ ast' = r.v
        /\ err' = [heading |-> r.heading, msg |-> r.msg, pos |-> r.pos]
        /\ last' = [op |-> "parse", ret |-> r.t.removed, before |-> last.before,
                    eof_at_top |-> r.t.eof_at_top, drained |-> r.t.drained,
                    pushed |-> r.t.pushed, closes |-> r.t.closes]
  /\ UNCHANGED <<reader, consumed, spans>>

Next == LexFile \/ ParseStep

Spec == Init /\ [][Next]_vars

NextExpr == LexFile \/ ParseStep

SpecExpr == InitExpr /\ [][NextExpr]_vars

(***************************************************************************)
(* The body of `fn main()`: a block of return statements, numbers and `;`. *)
(***************************************************************************)
MaxBlockWords == 5

WMain == <<"f", "n", " ", "m", "a", "i", "n", "(", ")", " ", "{", " ">>

BlockWords == {WReturn, <<"0">>, <<";">>, <<" ">>, <<"}">>}

InitBlock ==
  \E k \in 0..MaxBlockWords : \E ws \in [1..k -> BlockWords] : Loaded(WMain \o Concat(ws))

NextBlock == LexFile \/ ParseStep

SpecBlock == InitBlock /\ [][NextBlock]_vars

(***************************************************************************)
(* Programs of `use` statements that name valid, invalid and cyclic files. *)
(***************************************************************************)
MaxUseWords == 3

\* use "<name>"
UseOf(name) == <<"u", "s", "e", " ", "\"">> \o name \o <<"\"">>

UseWords ==
  {UseOf(<<"o", ".", "r", "o", "c", "k">>), UseOf(<<"m", ".", "r", "o", "c", "k">>),
   UseOf(<<"p", ".", "r", "o", "c", "k">>), UseOf(<<"x", ".", "r", "o", "c", "k">>),
   UseOf(<<"s", ".", "r", "o", "c", "k">>), UseOf(<<"n">>), UseOf(<<"t", ".", "t", "x", "t">>),
   <<";">>, <<" ">>, <<"a">>}

InitUse ==
  \E k \in 0..MaxUseWords : \E ws \in [1..k -> UseWords] : Loaded(Concat(ws))

NextUse == LexFile \/ ParseStep

SpecUse == InitUse /\ [][NextUse]_vars

(***************************************************************************)
(* Expression statements inside the block of `fn a()`, with parentheses    *)
(* and leading operators.                                                  *)
(***************************************************************************)
MaxUnaryWords == 5

WFnBlock == <<"f", "n", " ", "a", "(", ")", "{">>

UnaryWords == {<<"a">>, <<"1">>, <<"+">>, <<"-">>, <<"*">>, <<"(">>, <<")">>}

InitUnary ==
  \E k \in 0..MaxUnaryWords : \E ws \in [1..k -> UnaryWords] :
    Loaded(WFnBlock \o Concat(ws) \o <<"}">>)

NextUnary == LexFile \/ ParseStep

SpecUnary == InitUnary /\ [][NextUnary]_vars

(***************************************************************************)
(* The body of `fn a()`: a chain of property accesses and calls.           *)
(***************************************************************************)
MaxChainWords == 4

ChainWords == {<<"a">>, <<".", "b">>, <<".", "c">>, <<"(", ")">>, <<" ">>}

InitChain ==
  \E k \in 0..MaxChainWords : \E ws \in [1..k -> ChainWords] : Loaded(WFn \o Concat(ws))

NextChain == LexFile \/ ParseStep

SpecChain == InitChain /\ [][NextChain]_vars

(***************************************************************************)
(* What follows the condition of an `if`: bodies, `else` and whitespace.   *)
(***************************************************************************)
MaxIfWords == 5

WIf == <<"f", "n", " ", "a", "(", ")", "i", "f", " ", "x", " ", "<", " ", "1", "0", " ">>

WEmptyBlock == <<"{", " ", "}">>

WElse == <<"e", "l", "s", "e">>

IfWords == {WEmptyBlock, WElse, <<" ">>, <<"1">>, <<";">>}

InitIf ==
  \E k \in 0..MaxIfWords : \E ws \in [1..k -> IfWords] : Loaded(WIf \o Concat(ws))

NextIf == LexFile \/ ParseStep

SpecIf == InitIf /\ [][NextIf]_vars

(***************************************************************************)
(* The type of a declaration `let x:` in the body of `fn a()`.             *)
(***************************************************************************)
MaxTypeWords == 5

WLet == WFn \o <<"l", "e", "t", " ", "x", ":", " ">>

WI32 == <<"i", "3", "2">>

TypeWords == {<<"[">>, <<"]">>, <<"{">>, <<"}">>, WI32, <<";", " ">>, <<"4">>}

InitType ==
  \E k \in 0..MaxTypeWords : \E ws \in [1..k -> TypeWords] : Loaded(WLet \o Concat(ws))

NextType == LexFile \/ ParseStep

SpecType == InitType /\ [][NextType]_vars

(***************************************************************************)
(* What follows `fn a()`: operators, a declaration, names and numbers.     *)
(***************************************************************************)
MaxOpWords == 5

WLetI32 == <<"l", "e", "t", " ", "x", ":", " ">> \o WI32

OpWords == {WLetI32, <<"-", ">">>, <<"-">>, <<"=">>, <<" ">>, <<"1">>, <<"a">>}

InitOp ==
  \E k \in 0..MaxOpWords : \E ws \in [1..k -> OpWords] : Loaded(WFn \o Concat(ws))

NextOp == LexFile \/ ParseStep

SpecOp == InitOp /\ [][NextOp]_vars

(***************************************************************************)
(* The body of a block: parentheses, a call, operands and operators.       *)
(***************************************************************************)
MaxParenWords == 5

ParenWords ==
  {<<"(">>, <<")">>, <<"a">>, <<" ", "+", " ", "b">>, <<" ", "*", " ", "c">>, <<"f", "(">>}

InitParen ==
  \E k \in 0..MaxParenWords : \E ws \in [1..k -> ParenWords] :
    Loaded(WFnBlock \o Concat(ws) \o <<"}">>)

NextParen == LexFile \/ ParseStep

SpecParen == InitParen /\ [][NextParen]_vars

(***************************************************************************)
(* Comments: lex token by token, then parse the token list.                *)
(***************************************************************************)
MaxCommentLen == 6

CommentAlphabet == {"/", "*", "a", "\n", "\""}

InitComment ==
  \E k \in 0..MaxCommentLen : \E input \in [1..k -> CommentAlphabet] :
    Start(input, "lexing")

NextComment == LexStep \/ LexEof \/ ParseStep

SpecComment == InitComment /\ [][NextComment]_vars

(***************************************************************************)
(* Whole files without `use`: words that enter every loop of the parser.   *)
(***************************************************************************)
MaxLoopWords == 4

LoopWords ==
  {<<"f", "n", " ", "a", "(">>, <<"x", ":">>, <<"&", "i">>, <<",">>, <<")">>,
   <<"{">>, <<"}">>, <<"a">>, <<".">>, <<"(">>, <<"+">>, <<";">>}

InitLoop == \E k \in 0..MaxLoopWords : \E ws \in [1..k -> LoopWords] : Loaded(Concat(ws))

NextLoop == LexFile \/ ParseStep

SpecLoop == InitLoop /\ [][NextLoop]_vars

\* the token list lex returned for the input of a parse run
LexedTokens == lex(last.before).tokens

(***************************************************************************)
(* Properties of the reader and the lexer.                                 *)
(***************************************************************************)
\* the position after the characters s, counted from (1, 1)
NewlinesIn(s) == {i \in 1..Len(s) : s[i] = "\n"}

LastNewline(s) == IF NewlinesIn(s) = {} THEN 0
                  ELSE CHOOSE i \in NewlinesIn(s) : \A j \in NewlinesIn(s) : j <= i

LineAfter(s) == 1 + Cardinality(NewlinesIn(s))

ColumnAfter(s) == 1 + (Len(s) - LastNewline(s))

PosLe(a, b) == a.line < b.line \/ (a.line = b.line /\ a.ch <= b.ch)

RECURSIVE Flatten(_)
Flatten(ss) == IF ss = <<>> THEN <<>> ELSE Head(ss) \o Flatten(Tail(ss))

\* the canonical text of a token kind that carries no lexeme and no operator
Glyph(tt) ==
  CASE tt = "NOP" -> <<";">>
    [] tt = "OpenParen" -> <<"(">>
    [] tt = "CloseParen" -> <<")">>
    [] tt = "OpenBracket" -> <<"{">>
    [] tt = "CloseBracket" -> <<"}">>
    [] tt = "OpenBrace" -> <<"[">>
    [] tt = "CloseBrace" -> <<"]">>
    [] tt = "Comma" -> <<",">>
    [] tt = "Interrupt" -> <<"@">>
    [] tt = "Panic" -> <<"?">>
    [] tt = "Colon" -> <<":">>
    [] tt = "DoubleColon" -> <<":", ":">>
    [] tt = "Dot" -> <<".">>
    [] tt = "Fn" -> <<"f", "n">>
    [] tt = "Let" -> <<"l", "e", "t">>
    [] tt = "If" -> <<"i", "f">>
    [] tt = "Else" -> <<"e", "l", "s", "e">>
    [] tt = "While" -> <<"w", "h", "i", "l", "e">>
    [] tt = "For" -> <<"f", "o", "r">>
    [] tt = "Loop" -> <<"l", "o", "o", "p">>
    [] tt = "Return" -> <<"r", "e", "t", "u", "r", "n">>
    [] tt = "Match" -> <<"m", "a", "t", "c", "h">>
    [] tt = "Struct" -> <<"s", "t", "r", "u", "c", "t">>
    [] tt = "Assert" -> <<"a", "s", "s", "e", "r", "t">>
    [] tt = "In" -> <<"i", "n">>
    [] tt = "Use" -> <<"u", "s", "e">>
    [] tt = "BoolTrue" -> <<"t", "r", "u", "e">>
    [] tt = "BoolFalse" -> <<"f", "a", "l", "s", "e">>
    [] OTHER -> <<>>

TokenText(t) ==
  IF t.op # None THEN as_raw(t.op[1])
  ELSE IF t.value # None THEN t.value[1]
  ELSE Glyph(t.token_type)

Significant == {i \in 1..Len(tokens) : tokens[i].token_type # "Whitespace"}

RECURSIVE TextFrom(_)
TextFrom(i) ==
  IF i > Len(tokens) THEN <<>>
  ELSE (IF i \in Significant THEN TokenText(tokens[i]) ELSE <<>>) \o TextFrom(i + 1)

RECURSIVE SourceFrom(_)
SourceFrom(i) ==
  IF i > Len(tokens) THEN <<>>
  ELSE (IF i \in Significant THEN spans[i] ELSE <<>>) \o SourceFrom(i + 1)

\* C5: a lone `<` lexes to Lt, `<=` to Lte, `>` to Gt and `>=` to Gte.
C5_AngleComparisons ==
  \A i \in 1..Len(tokens) :
    /\ spans[i] = <<"<">> => tokens[i].op = Some("Lt")
    /\ spans[i] = <<"<", "=">> => tokens[i].op = Some("Lte")
    /\ spans[i] = <<">">> => tokens[i].op = Some("Gt")
    /\ spans[i] = <<">", "=">> => tokens[i].op = Some("Gte")

\* C6: after a successful lex, the texts of the tokens that are not whitespace,
\* concatenated in order, are the source without its whitespace and comments.
C6_RoundTrip ==
  status = "lexed" => TextFrom(1) = SourceFrom(1)

\* C7: a successful lex ends its token list with the only EOF token, whose
\* start and end are the reader position after the whole input.
C7_SingleEof ==
  /\ status = "lexing" => \A i \in 1..Len(tokens) : tokens[i].token_type # "EOF"
  /\ status = "lexed" =>
       /\ tokens # <<>>
       /\ \A i \in 1..Len(tokens) :
            (tokens[i].token_type = "EOF") <=> (i = Len(tokens))
       /\ reader.stream = <<>>
       /\ tokens[Len(tokens)].start = reader.pos
       /\ tokens[Len(tokens)].end = reader.pos
       /\ reader.pos.line = LineAfter(consumed)
       /\ reader.pos.ch = ColumnAfter(consumed)

C7_Witness ==
  /\ status = "lexed"
  /\ Len(tokens) >= 3
  /\ tokens[Len(tokens)].start.line = 2
  /\ tokens[Len(tokens)].start.ch = 2

\* C8: every token the lexer produces starts no later than it ends.
C8_StartBeforeEnd ==
  \A i \in 1..Len(tokens) :
    /\ tokens[i].end.line >= tokens[i].start.line
    /\ tokens[i].end.line = tokens[i].start.line => tokens[i].end.ch >= tokens[i].start.ch
    /\ PosLe(tokens[i].start, tokens[i].end)

C8_Witness ==
  \E i \in 1..Len(tokens) :
    /\ tokens[i].start.ch > 1
    /\ tokens[i].end.line > tokens[i].start.line
    /\ tokens[i].end.ch < tokens[i].start.ch

\* C9: the reader position is line 1 + the newlines consumed, column 1 + the
\* characters consumed since the last newline; consume on an exhausted reader
\* returns nothing and changes nothing.
C9_ReaderPosition ==
  /\ reader.pos.line = LineAfter(consumed)
  /\ reader.pos.ch = ColumnAfter(consumed)
  /\ (last.op = "consume" /\ last.before.stream = <<>>) =>
       (last.ret = None /\ reader = last.before)
  /\ (last.op = "consume" /\ last.before.stream # <<>>) =>
       last.ret = Some(Head(last.before.stream))

C9_Witness ==
  /\ last.op = "consume"
  /\ last.before.stream = <<>>
  /\ reader.pos.line = 2
  /\ reader.pos.ch = 3

NoQuoteIn(s) == \A i \in 1..Len(s) : s[i] # "\""

\* C10: a string literal that is not closed before the end of the input makes
\* lex fail with 'String literal with no close' at the opening quote.
C10_UnterminatedString ==
  (/\ last.op = "next_token"
   /\ peek(last.before) = Some("\"")
   /\ NoQuoteIn(Tail(last.before.stream)))
  => (/\ status = "lex_err"
      /\ err.heading = "String literal with no close"
      /\ err.pos = last.before.pos)

\* the characters the claim lists as starting a lexeme
StartsLexeme ==
  {" ", "\n", "\t", ";", "(", ")", "{", "}", "[", "]", ",", "@", "?", ":", ".",
   "+", "-", "*", "/", "%", "^", "&", "|", "=", "<", ">", "!", "\"", "'", "_"}
  \cup DigitChars \cup AlphaChars

Finished == status \in {"parsed", "parse_err", "parse_panic", "parse_overflow"}

\* the children of a statement that are statements
OptionSeq(o) == o

Children(n) ==
  CASE n.node \in {"Program", "Use", "Block"} -> n.exprs
    [] n.node = "Fn" -> <<n.ident>> \o n.params \o <<n.return_type, n.body>>
    [] n.node = "FnCall" -> <<n.ident>> \o n.params
    [] n.node = "If" -> <<n.condition, n.body>> \o OptionSeq(n.else_statement)
    [] n.node \in {"Return", "Panic"} -> <<n.value>>
    [] n.node = "Postfix" ->
         [i \in 1..Len(n.postfix) |->
            IF n.postfix[i].operand # None THEN n.postfix[i].operand[1] ELSE Void]
    [] n.node = "Assert" -> <<n.expr>>
    [] n.node = "Declaration" ->
         <<n.ident>> \o OptionSeq(n.type_ident) \o OptionSeq(n.value)
    [] n.node = "Assignment" -> <<n.ident, n.value>>
    [] n.node = "PropertyAccess" -> <<n.expr, n.property>>
    [] n.node = "ArrayAccess" -> <<n.ident, n.index>>
    [] n.node = "While" -> <<n.condition, n.body>>
    [] n.node = "For" -> <<n.ident, n.collection, n.body>>
    [] n.node = "Loop" -> <<n.body>>
    [] n.node = "Type" -> <<n.type_ident>> \o n.modifiers
    [] n.node = "ArrayType" -> <<n.array_type, n.size>> \o n.modifiers
    [] OTHER -> <<>>

\* the number of values on the evaluation stack after the items 1..i of a
\* postfix stack, every operator taking two values and leaving one; -1 once an
\* operator has found fewer than two
RECURSIVE RpnDepth(_, _)
RpnDepth(stack, i) ==
  IF i = 0 THEN 0
  ELSE LET d == RpnDepth(stack, i - 1)
       IN IF d < 0 THEN -1
          ELSE IF stack[i].operand # None THEN d + 1
          ELSE IF d < 2 THEN -1
          ELSE d - 1

WellFormedRpn(stack) ==
  /\ RpnDepth(stack, Len(stack)) = 1
  /\ \A i \in 1..Len(stack) :
       stack[i].operator # None => precedence(stack[i].operator[1]) # NoPrec

RECURSIVE EveryPostfixWellFormed(_)
EveryPostfixWellFormed(n) ==
  /\ n.node = "Postfix" => WellFormedRpn(n.postfix)
  /\ \A i \in 1..Len(Children(n)) : EveryPostfixWellFormed(Children(n)[i])

\* the tokens of the input that are not whitespace
RECURSIVE NoWhitespace(_)
NoWhitespace(toks) ==
  IF toks = <<>> THEN <<>>
  ELSE IF Head(toks).token_type = "Whitespace" THEN NoWhitespace(Tail(toks))
  ELSE <<Head(toks)>> \o NoWhitespace(Tail(toks))

\* the first token that is neither whitespace nor a `;`
RECURSIVE FirstItemToken(_)
FirstItemToken(toks) ==
  IF Head(toks).token_type \in {"Whitespace", "NOP"} THEN FirstItemToken(Tail(toks))
  ELSE Head(toks)

\* C1: a successful parse returns a Program whose children are Fn, Use or NOP
\* nodes; a top-level item that starts with any other token makes parse fail
\* with 'Expected an expression' at that token.
C1_TopLevelItems ==
  /\ status = "parsed" =>
       /\ ast.node = "Program"
       /\ \A i \in 1..Len(ast.exprs) : ast.exprs[i].node \in {"Fn", "Use", "NOP"}
  /\ (Finished /\ FirstItemToken(LexedTokens).token_type \notin {"Fn", "Use", "EOF"}) =>
       /\ status = "parse_err"
       /\ err.heading = "Expected an expression"
       /\ err.pos = FirstItemToken(LexedTokens).start

C1_Witness ==
  /\ status = "parsed"
  /\ Len(ast.exprs) = 3
  /\ ast.exprs[1].node = "Fn"
  /\ ast.exprs[2].node = "Use"
  /\ ast.exprs[2].exprs # <<>>
  /\ ast.exprs[3].node = "NOP"

\* C2: when parse succeeds the token list is empty, and the last token taken
\* out of it is the EOF token, consumed by parse_file itself.
C2_AllConsumed ==
  status = "parsed" =>
    /\ tokens = <<>>
    /\ last.ret # None
    /\ last.ret[1].token_type = "EOF"
    /\ last.ret[1] = LexedTokens[Len(LexedTokens)]
    /\ last.eof_at_top

C2_Witness ==
  /\ status = "parsed"
  /\ Len(LexedTokens) > 6
  /\ tokens = <<>>
  /\ Len(ast.exprs) = 1
  /\ ast.exprs[1].node = "Fn"
  /\ ast.exprs[1].body.node = "PropertyAccess"

\* C3: every Postfix stack of a successful parse is well-formed reverse Polish
\* over operands and binary operators with a defined precedence.
C3_PostfixWellFormed ==
  status = "parsed" => EveryPostfixWellFormed(ast)

\* the input is `fn a()` followed by operand operator operand operator operand
ExprTokens == SubSeq(NoWhitespace(LexedTokens), 5, Len(NoWhitespace(LexedTokens)) - 1)

IsOperandToken(t) == t.token_type \in {"Ident", "NumberLit"}

IsBinaryToken(t) == t.token_type = "Operator" /\ precedence(t.op[1]) # NoPrec

OperandOf(t) ==
  new_operand(IF t.token_type = "Ident" THEN Identifier(t.value[1])
              ELSE NumberLiteral(t.value[1], FALSE))

TwoOperators ==
  /\ Finished
  /\ Len(ExprTokens) = 5
  /\ IsOperandToken(ExprTokens[1])
  /\ IsBinaryToken(ExprTokens[2])
  /\ IsOperandToken(ExprTokens[3])
  /\ IsBinaryToken(ExprTokens[4])
  /\ IsOperandToken(ExprTokens[5])

FirstOp == ExprTokens[2].op[1]

SecondOp == ExprTokens[4].op[1]

\* the postfix stack of the body of the only function of the program
BodyPostfix == ast.exprs[1].body.postfix

InputIs(expr) == last.before.stream = WFn \o expr

A == new_operand(Identifier(<<"a">>))

One == new_operand(NumberLiteral(<<"1">>, FALSE))

\* C4: when a binary operator arrives, the operator on top of the operator
\* stack goes to the output exactly when its precedence is strictly higher:
\* x o1 y o2 z yields [x, y, o1, z, o2] when o1 binds tighter than o2 and
\* [x, y, z, o2, o1] otherwise, equal precedence included.
C4_StrictPrecedencePop ==
  /\ TwoOperators =>
       /\ status = "parsed"
       /\ ast.exprs[1].body.node = "Postfix"
       /\ BodyPostfix =
            IF precedence(FirstOp) > precedence(SecondOp)
            THEN <<OperandOf(ExprTokens[1]), OperandOf(ExprTokens[3]),
                   new_operator(FirstOp), OperandOf(ExprTokens[5]),
                   new_operator(SecondOp)>>
            ELSE <<OperandOf(ExprTokens[1]), OperandOf(ExprTokens[3]),
                   OperandOf(ExprTokens[5]), new_operator(SecondOp),
                   new_operator(FirstOp)>>
  /\ (Finished /\ InputIs(<<"a", "+", "1", "*", "a">>)) =>
       BodyPostfix = <<A, One, A, new_operator("Mul"), new_operator("Add")>>
  /\ (Finished /\ InputIs(<<"a", "*", "1", "+", "a">>)) =>
       BodyPostfix = <<A, One, new_operator("Mul"), A, new_operator("Add")>>
  /\ (Finished /\ InputIs(<<"a", "-", "1", "-", "a">>)) =>
       BodyPostfix = <<A, One, A, new_operator("Sub"), new_operator("Sub")>>

C4_Witness ==
  /\ TwoOperators
  /\ precedence(FirstOp) = 1
  /\ precedence(SecondOp) = 0
  /\ BodyPostfix[3] = new_operator(FirstOp)

PropertyAccess(expr, property) ==
  [node |-> "PropertyAccess", expr |-> expr, property |-> property]

FnCall(ident, params) == [node |-> "FnCall", ident |-> ident, params |-> params]

\* C13: a chain of property accesses is left-nested: `a.b.c()` parses to
\* PropertyAccess(PropertyAccess(a, b), FnCall(c, [])), and `a.b.c` to
\* PropertyAccess(PropertyAccess(a, b), c); the property of the outermost node
\* is the last element of the chain.
C13_LeftNestedChain ==
  /\ (Finished /\ InputIs(<<"a", ".", "b", ".", "c", "(", ")">>)) =>
       /\ status = "parsed"
       /\ ast.exprs[1].body =
            PropertyAccess(PropertyAccess(Identifier(<<"a">>), Identifier(<<"b">>)),
                           FnCall(Identifier(<<"c">>), <<>>))
  /\ (Finished /\ InputIs(<<"a", ".", "b", ".", "c">>)) =>
       /\ status = "parsed"
       /\ ast.exprs[1].body =
            PropertyAccess(PropertyAccess(Identifier(<<"a">>), Identifier(<<"b">>)),
                           Identifier(<<"c">>))

\* C14: when whitespace lies between the body of an `if` and `else`, the else
\* is still consumed and the statement after it becomes the else branch:
\* `if x < 10 { } else { }` yields an If whose else is Some(Block[]).
C14_ElseAfterWhitespace ==
  (Finished /\ last.before.stream = WIf \o WEmptyBlock \o <<" ">> \o WElse \o <<" ">>
                                      \o WEmptyBlock) =>
    /\ status = "parsed"
    /\ ast.exprs[1].body.node = "If"
    /\ ast.exprs[1].body.body = Block(<<>>)
    /\ ast.exprs[1].body.else_statement = Some(Block(<<>>))

\* whether no Postfix stack of the tree n holds the Assign operator
RECURSIVE NoAssignInPostfix(_)
NoAssignInPostfix(n) ==
  /\ n.node = "Postfix" =>
       \A i \in 1..Len(n.postfix) : n.postfix[i].operator # Some("Assign")
  /\ \A i \in 1..Len(Children(n)) : NoAssignInPostfix(Children(n)[i])

\* C15: an identifier followed by `=` parses to an Assignment node built
\* outside the postfix stack: `a = a + a` yields Assignment(target a, value
\* Postfix[a, a, Add]), and no Postfix stack contains the Assign operator.
C15_AssignmentOutsidePostfix ==
  /\ (Finished /\ InputIs(<<"a", "=", "a", "+", "a">>)) =>
       /\ status = "parsed"
       /\ ast.exprs[1].body =
            [node |-> "Assignment", ident |-> Identifier(<<"a">>),
             value |-> PostfixStmt(<<A, A, new_operator("Add")>>)]
  /\ status = "parsed" => NoAssignInPostfix(ast)

\* the input is `fn a(){`, the expression and `}`
BlockInputIs(expr) == last.before.stream = WFnBlock \o expr \o <<"}">>

\* the statements of the block that is the body of the only function
BlockExprs == ast.exprs[1].body.exprs

\* C16: for a statement that starts with a unary `-` before an identifier
\* (`-a + 1`), the postfix stack starts with the Sub operator followed by the
\* operand Identifier a, with no synthetic zero: the negation is recorded.
C16_LeadingMinusRecorded ==
  (Finished /\ BlockInputIs(<<"-", "a", "+", "1">>)) =>
    /\ status = "parsed"
    /\ Len(BlockExprs) = 1
    /\ BlockExprs[1].node = "Postfix"
    /\ Len(BlockExprs[1].postfix) >= 2
    /\ BlockExprs[1].postfix[1] = new_operator("Sub")
    /\ BlockExprs[1].postfix[2] = A
    /\ \A i \in 1..Len(BlockExprs[1].postfix) :
         BlockExprs[1].postfix[i] # new_operand(NumberLiteral(<<"0">>, FALSE))

\* the operator stack the last shunting_yard was left with after its main loop
Drained == last.drained[1]

OpenParensIn(st) == {i \in 1..Len(st) : st[i].token_type = "OpenParen"}

\* the operators of an operator stack in the order pop takes them off
RECURSIVE PopOrder(_)
PopOrder(st) ==
  IF st = <<>> THEN <<>>
  ELSE <<new_operator(st[Len(st)].op[1])>> \o PopOrder(SubSeq(st, 1, Len(st) - 1))

LastItems(stack, n) == SubSeq(stack, Len(stack) - n + 1, Len(stack))

\* the token of the input that starts at column ch of line 1
TokenAt(ch) == CHOOSE t \in {LexedTokens[i] : i \in 1..Len(LexedTokens)} : t.start.ch = ch

\* C19: when shunting_yard ends with an OpenParen on the operator stack, the
\* parse fails with 'Open found with no close' at that `(` (the one nearest
\* the top); with no OpenParen left, the remaining operators go to the end of
\* the postfix output in pop order.
C19_OpenWithoutClose ==
  /\ (Finished /\ last.drained # None) =>
       IF OpenParensIn(Drained) # {}
       THEN /\ status = "parse_err"
            /\ err.heading = "Open found with no close"
            /\ err.pos = Drained[MaxOf(OpenParensIn(Drained))].start
       ELSE (status = "parsed" /\ Len(BlockExprs) = 1 /\ BlockExprs[1].node = "Postfix") =>
              /\ Len(BlockExprs[1].postfix) >= Len(Drained)
              /\ LastItems(BlockExprs[1].postfix, Len(Drained)) = PopOrder(Drained)
  /\ (Finished /\ BlockInputIs(<<"(", "a", "+", "1">>)) =>
       /\ status = "parse_err"
       /\ err.heading = "Open found with no close"
       /\ err.pos = TokenAt(8).start
       /\ TokenAt(8).token_type = "OpenParen"
  /\ (Finished /\ BlockInputIs(<<"1", "*", "(", "(", "a">>)) =>
       /\ status = "parse_err"
       /\ err.heading = "Open found with no close"
       /\ err.pos = TokenAt(11).start
  /\ (Finished /\ BlockInputIs(<<"a", "+", "1", "*", "a">>)) =>
       /\ status = "parsed"
       /\ BlockExprs[1].postfix = <<A, One, A, new_operator("Mul"), new_operator("Add")>>

C19_Witness ==
  /\ status = "parse_err"
  /\ err.heading = "Open found with no close"
  /\ last.drained # None
  /\ Len(Drained) = 3
  /\ Drained[1].token_type = "Operator"
  /\ Drained[2].token_type = "OpenParen"
  /\ Drained[3].token_type = "Operator"

\* the tokens between `fn a(){` and `}` that are not whitespace
BlockTokens == SubSeq(NoWhitespace(LexedTokens), 6, Len(NoWhitespace(LexedTokens)) - 2)

\* an operator that cannot be a leading unary operator
IsNotUnaryToken(t) ==
  t.token_type = "Operator" /\ t.op[1] \notin {"Sub", "Inc", "Dec"}

\* an operator of the tokens bt with no operand right before it
Suspect(bt, i) ==
  /\ bt[i].token_type = "Operator"
  /\ i = 1 \/ bt[i - 1].token_type \in {"Operator", "OpenParen"}

MinOf(S) == CHOOSE i \in S : \A j \in S : i <= j

FirstSuspect(bt) == MinOf({i \in 1..Len(bt) : Suspect(bt, i)})

\* no `)` and no call before the token at i
PlainBefore(bt, i) ==
  \A j \in 1..(i - 1) :
    /\ bt[j].token_type # "CloseParen"
    /\ ~(bt[j].token_type = "Ident" /\ bt[j + 1].token_type = "OpenParen")

\* the first operator without an operand before it is at i, follows a binary
\* operator or a `(` and is none of `-`, `++`, `--`
SecondOperatorAt(bt, i) ==
  /\ i >= 2
  /\ PlainBefore(bt, i)
  /\ IsNotUnaryToken(bt[i])
  /\ bt[i - 1].token_type = "OpenParen" \/ IsBinaryToken(bt[i - 1])

SecondOperatorRejected(bt) ==
  /\ \E i \in 1..Len(bt) : Suspect(bt, i)
  /\ SecondOperatorAt(bt, FirstSuspect(bt))

\* operand, binary operator, operator that cannot be unary, somewhere
TwoBinaryInARow(bt) ==
  \E i \in 3..Len(bt) :
    /\ IsOperandToken(bt[i - 2])
    /\ IsBinaryToken(bt[i - 1])
    /\ IsNotUnaryToken(bt[i])

RejectedAtOperator(bt) ==
  /\ SecondOperatorRejected(bt) =>
       /\ status = "parse_err"
       /\ err.heading = "Unexpected operator"
       /\ err.pos = bt[FirstSuspect(bt)].start
  /\ TwoBinaryInARow(bt) => status = "parse_err"

MinusOne == new_operand(NumberLiteral(<<"1">>, TRUE))

\* C20: an operator that arrives right after a binary operator or a `(` is
\* read as a leading unary operator: `-` makes the next number negative,
\* `++` and `--` push Add or Sub and the number 1, and any other operator
\* fails the parse with 'Unexpected operator' at that operator.
C20_OperatorAfterOperator ==
  /\ Finished => RejectedAtOperator(BlockTokens)
  /\ (Finished /\ BlockInputIs(<<"a", "+", "-", "1">>)) =>
       /\ status = "parsed"
       /\ BlockExprs[1].postfix = <<A, MinusOne, new_operator("Add")>>
  /\ (Finished /\ BlockInputIs(<<"a", "*", "+", "+", "1">>)) =>
       /\ status = "parsed"
       /\ BlockExprs[1].postfix = <<A, new_operator("Add"), One, One, new_operator("Mul")>>
  /\ (Finished /\ BlockInputIs(<<"a", "*", "-", "-", "1">>)) =>
       /\ status = "parsed"
       /\ BlockExprs[1].postfix = <<A, new_operator("Sub"), One, One, new_operator("Mul")>>
  /\ (Finished /\ BlockInputIs(<<"(", "-", "1", ")">>)) =>
       /\ status = "parsed"
       /\ BlockExprs[1].postfix = <<MinusOne>>

C20_Witness ==
  /\ status = "parse_err"
  /\ err.heading = "Unexpected operator"
  /\ BlockInputIs(<<"1", "*", "a", "-", "*">>)
  /\ SecondOperatorRejected(BlockTokens)
  /\ TwoBinaryInARow(BlockTokens)
  /\ err.pos = TokenAt(12).start
  /\ TokenAt(12).op = Some("Mul")

\* the tokens from the first one that is neither whitespace nor a `;`
RECURSIVE SkipTrivia(_)
SkipTrivia(toks) ==
  IF toks # <<>> /\ Head(toks).token_type \in {"Whitespace", "NOP"}
  THEN SkipTrivia(Tail(toks))
  ELSE toks

\* the tokens it start with `use`, whitespace and a string literal
StartsWithUse(it) ==
  /\ Len(it) >= 3
  /\ it[1].token_type = "Use"
  /\ it[2].token_type = "Whitespace"
  /\ it[3].token_type = "StringLit"

\* the file a string literal of the main file names
NamedFile(name) == <<"d", "/">> \o name

Rock == <<"r", "o", "c", "k">>

HasRockExtension(path) ==
  /\ Len(path) >= 6
  /\ SubSeq(path, Len(path) - 4, Len(path)) = <<".">> \o Rock
  /\ path[Len(path) - 5] # "/"

\* the first item is a `use` of a file that is missing, is not a regular file
\* or has not the extension rock
InvalidImport(it) ==
  /\ StartsWithUse(it)
  /\ \/ NamedFile(it[3].value[1]) \notin Files
     \/ ~HasRockExtension(NamedFile(it[3].value[1]))

ImportRejected(it) ==
  InvalidImport(it) =>
    /\ status = "parse_err"
    /\ err.heading = "Invalid boulder file import"
    /\ err.pos = it[3].start

\* C17: a `use` of a file that does not exist, is not a regular file or does
\* not have the extension rock fails with 'Invalid boulder file import' at the
\* start of the string literal.
C17_InvalidImport ==
  Finished => ImportRejected(SkipTrivia(LexedTokens))

\* the first item is a `use` of a file that imports itself, directly or through
\* another file
CyclicImport(it) ==
  /\ StartsWithUse(it)
  /\ NamedFile(it[3].value[1]) \in {MainFile, PingFile, PongFile}

\* C18: parsing a file that imports itself, directly or through a chain of
\* imports, never ends with a result: every level of parse_use lexes and
\* parses the file again, beyond every depth the model follows.
C18_CyclicImportDiverges ==
  (Finished /\ CyclicImport(SkipTrivia(LexedTokens))) => status = "parse_overflow"

C18_Witness ==
  /\ status = "parse_overflow"
  /\ last.before.stream = <<";">> \o UseOf(<<"m", ".", "r", "o", "c", "k">>) \o <<";">>

\* the function node of `fn main()` with the given body
MainFn(body) ==
  [node |-> "Fn", ident |-> Identifier(<<"m", "a", "i", "n">>), params |-> <<>>,
   return_type |-> Void, body |-> body]

Zero == new_operand(NumberLiteral(<<"0">>, FALSE))

\* C12: `fn main() { return 0; }` parses to a Program with the one function
\* main, no parameters, return type Void, whose body is a Block with exactly
\* one child, Return(Postfix[Number 0]); the `;` adds no child to the block.
C12_ReturnZeroBlock ==
  (Finished /\ last.before.stream = WMain \o WReturn \o <<"0", ";", " ", "}">>) =>
    /\ status = "parsed"
    /\ ast = [node |-> "Program",
              exprs |-> <<MainFn(Block(<<[node |-> "Return",
                                          value |-> PostfixStmt(<<Zero>>)]>>))>>]

\* the kinds of token that shunting_yard may hold on its operator stack
OpStackKinds == {"Operator", "OpenParen"}

\* C21: the diagnostic 'unexpected error found in op_stack during shunting
\* yard algorithm' is never produced: every token that shunting_yard pushes
\* on its operator stack is an Operator or an OpenParen, so none of the three
\* kind checks on the stack can fail (nor can the unwrap in the last two of
\* them panic).
C21_OpStackErrorUnreachable ==
  /\ err.msg # OpStackError
  /\ err.heading # OpStackError
  /\ last.pushed \subseteq OpStackKinds
  /\ (last.drained # None) =>
       \A i \in 1..Len(Drained) : Drained[i].token_type \in OpStackKinds
  /\ status # "parse_panic"

C21_Witness ==
  /\ status = "parsed"
  /\ BlockInputIs(<<"(", "a", ")", "+", "a">>)
  /\ last.pushed = OpStackKinds
  /\ Len(Drained) = 1
  /\ Drained[1].token_type = "Operator"

\* the input is `fn a()let x: ` and the type
TypeInputIs(ty) == last.before.stream = WLet \o ty

\* Statement::Type without modifiers
Type(name) == [node |-> "Type", type_ident |-> Identifier(name), modifiers |-> <<>>]

\* the type of the declaration that is the body of the only function
DeclaredType == ast.exprs[1].body.type_ident[1]

\* C22: a type that starts with `[` parses to an ArrayType: `let x: [i32; 4]`
\* is accepted, and the type of the declaration is an ArrayType whose element
\* type is i32 and which has no modifiers.
C22_ArrayTypeAccepted ==
  (Finished /\ TypeInputIs(<<"[">> \o WI32 \o <<";", " ", "4", "]">>)) =>
    /\ status = "parsed"
    /\ ast.exprs[1].body.node = "Declaration"
    /\ DeclaredType.node = "ArrayType"
    /\ DeclaredType.array_type = Type(WI32)
    /\ DeclaredType.modifiers = <<>>

\* the token is the operator o
IsOperator(t, o) == t.token_type = "Operator" /\ t.op = Some(o)

\* the tokens after `fn a()` that are not whitespace
AfterParams(toks) == SubSeq(NoWhitespace(toks), 5, Len(NoWhitespace(toks)))

\* the function has a return type only when `->` follows its parameters
ReturnTypeAfterMove(it) ==
  ast.exprs[1].return_type # Void => IsOperator(it[1], "Move")

\* a declaration that is the body has a value only when `=` follows its type
ValueAfterAssign(it) ==
  (it[1].token_type = "Let" /\ ast.exprs[1].body.node = "Declaration"
     /\ ast.exprs[1].body.value # None) => IsOperator(it[5], "Assign")

\* C23: optional_op(tag) and expect_op(tag) take only the operator with that
\* tag: a parsed function has a return type only when `->` follows its
\* parameter list, and a parsed declaration `let x: i32 ...` has an initial
\* value only when `=` follows its type.
C23_OperatorTagRespected ==
  (status = "parsed" /\ Len(ast.exprs) >= 1 /\ ast.exprs[1].node = "Fn") =>
     /\ ReturnTypeAfterMove(AfterParams(LexedTokens))
     /\ ValueAfterAssign(AfterParams(LexedTokens))

B == new_operand(Identifier(<<"b">>))

Cc == new_operand(Identifier(<<"c">>))

\* C24: a `)` that finds no OpenParen on the operator stack ends shunting_yard
\* and stays on the token list as the next token, and the postfix stack then
\* ends with every operator that was pending, in pop order; a `)` that finds
\* its `(` is consumed and the operators above the `(` are emitted:
\* `(a + b) * c` gives [a, b, Add, c, Mul], and the argument of
\* `f(a + b * c)` gives [a, b, c, Mul, Add] with the `)` left to the call.
C24_UnmatchedCloseStops ==
  /\ \A i \in 1..Len(last.closes) :
       /\ last.closes[i].next # None
       /\ last.closes[i].next[1].token_type = "CloseParen"
       /\ OpenParensIn(last.closes[i].pending) = {}
       /\ Len(last.closes[i].postfix) >= Len(last.closes[i].pending)
       /\ LastItems(last.closes[i].postfix, Len(last.closes[i].pending))
            = PopOrder(last.closes[i].pending)
  /\ (Finished /\ BlockInputIs(<<"(", "a", " ", "+", " ", "b", ")", " ", "*", " ", "c">>)) =>
       /\ status = "parsed"
       /\ BlockExprs = <<PostfixStmt(<<A, B, new_operator("Add"), Cc,
                                       new_operator("Mul")>>)>>
       /\ last.closes = <<>>
  /\ (Finished /\ BlockInputIs(<<"f", "(", "a", " ", "+", " ", "b", " ", "*", " ", "c", ")">>)) =>
       /\ status = "parsed"
       /\ BlockExprs =
            <<FnCall(Identifier(<<"f">>),
                     <<PostfixStmt(<<A, B, Cc, new_operator("Mul"),
                                     new_operator("Add")>>)>>)>>
       /\ Len(last.closes) = 1
  /\ (Finished /\ BlockInputIs(<<"(", "a", ")", ")">>)) =>
       /\ status = "parse_err"
       /\ err.heading = "Expected an expression"
       /\ err.pos = TokenAt(11).start
       /\ TokenAt(11).token_type = "CloseParen"

C24_Witness ==
  /\ status = "parsed"
  /\ Len(last.closes) = 1
  /\ Len(last.closes[1].pending) = 2
  /\ last.closes[1].next # None
  /\ last.closes[1].next[1].start.ch = 19
  /\ BlockExprs[1].node = "FnCall"

\* the characters s start with the characters p
StartsWith(s, p) == Len(s) >= Len(p) /\ SubSeq(s, 1, Len(p)) = p

\* the last next_token call returned one Operator token with operator o for
\* exactly the first n characters of a one-line lexeme
LexedAs(o, n) ==
  /\ status # "lex_err"
  /\ tokens[Len(tokens)].token_type = "Operator"
  /\ tokens[Len(tokens)].op = Some(o)
  /\ spans[Len(spans)] = SubSeq(last.before.stream, 1, n)
  /\ reader.stream = SubSeq(last.before.stream, n + 1, Len(last.before.stream))
  /\ tokens[Len(tokens)].start = last.before.pos
  /\ tokens[Len(tokens)].end = reader.pos
  /\ tokens[Len(tokens)].end.line = last.before.pos.line
  /\ tokens[Len(tokens)].end.ch = last.before.pos.ch + n

\* the shift family on the character c
ShiftFamily(c, sh, shu, sha) ==
  StartsWith(last.before.stream, <<c, c>>) =>
    IF StartsWith(last.before.stream, <<c, c, c>>) THEN LexedAs(shu, 3)
    ELSE IF StartsWith(last.before.stream, <<c, c, "=">>) THEN LexedAs(sha, 3)
    ELSE LexedAs(sh, 2)

\* C25: longest match on the shift family: at a token start `<<<` lexes to
\* one Shlu token, `<<=` to one ShlAssign token and `<<` before anything else
\* to one Shl token, `>>>`, `>>=`, `>>` likewise to Shru, ShrAssign and Shr;
\* the token ends right after the last character of the operator and the
\* reader has consumed nothing beyond it.
C25_ShiftLongestMatch ==
  last.op = "next_token" =>
    /\ ShiftFamily("<", "Shl", "Shlu", "ShlAssign")
    /\ ShiftFamily(">", "Shr", "Shru", "ShrAssign")

C25_Witness ==
  /\ last.op = "next_token"
  /\ last.before.stream = <<">", ">", "=", ">">>
  /\ last.before.pos.ch = 1
  /\ tokens[1].op = Some("ShrAssign")
  /\ tokens[1].end.ch = 4
  /\ reader.stream = <<">">>

\* the indices of s from which on s reads p
Occurrences(s, p) == {i \in 1..Len(s) : StartsWith(SubSeq(s, i, Len(s)), p)}

\* the length of the line comment that s starts with
LineCommentLen(s) ==
  IF Occurrences(s, <<"\n">>) = {} THEN Len(s) ELSE MinOf(Occurrences(s, <<"\n">>))

\* the closing `*/` of the block comment that s starts with
Closings(s) == {i \in Occurrences(s, <<"*", "/">>) : i >= 3}

\* the length of the block comment that s starts with
BlockCommentLen(s) == IF Closings(s) = {} THEN Len(s) ELSE MinOf(Closings(s)) + 1

\* the last next_token call returned one Whitespace token for exactly the
\* first n characters of its input
LexedAsComment(n) ==
  /\ status # "lex_err"
  /\ tokens[Len(tokens)].token_type = "Whitespace"
  /\ tokens[Len(tokens)].start = last.before.pos
  /\ tokens[Len(tokens)].end = reader.pos
  /\ spans[Len(spans)] = SubSeq(last.before.stream, 1, n)
  /\ reader.stream = SubSeq(last.before.stream, n + 1, Len(last.before.stream))

\* the whole input is one comment
OnlyComment(s) ==
  \/ StartsWith(s, <<"/", "/">>) /\ LineCommentLen(s) = Len(s)
  \/ StartsWith(s, <<"/", "*">>) /\ Closings(s) # {} /\ BlockCommentLen(s) = Len(s)

\* C26: at a token start, `//` through the next newline or the end of the
\* input and `/*` through the next `*/` each give exactly one Whitespace token
\* that covers the comment and nothing else, without an error; an input that
\* is only a comment parses to a Program with an empty body.
C26_CommentsAreWhitespace ==
  /\ (last.op = "next_token" /\ StartsWith(last.before.stream, <<"/", "/">>)) =>
       LexedAsComment(LineCommentLen(last.before.stream))
  /\ (last.op = "next_token" /\ StartsWith(last.before.stream, <<"/", "*">>)) =>
       LexedAsComment(BlockCommentLen(last.before.stream))
  /\ (status \in {"lexed", "lex_err"} \cup {"parsed", "parse_err", "parse_panic"}
        /\ OnlyComment(consumed)) =>
       /\ status \in {"lexed", "parsed"}
       /\ status = "lexed" => Len(tokens) = 2 /\ tokens[1].token_type = "Whitespace"
       /\ status = "parsed" => ast = [node |-> "Program", exprs |-> <<>>]
  /\ (OnlyComment(consumed) /\ reader.stream = <<>>) => status # "parse_err"

C26_Witness ==
  /\ status = "parsed"
  /\ consumed = <<"/", "*", "\"", "*", "*", "/">>
  /\ ast = [node |-> "Program", exprs |-> <<>>]

\* the number of digits that s starts with
RECURSIVE DigitRun(_)
DigitRun(s) == IF s # <<>> /\ Head(s) \in DigitChars THEN 1 + DigitRun(Tail(s)) ELSE 0

\* the last next_token call failed with this heading and message
LexFailed(heading, msg) ==
  /\ status = "lex_err"
  /\ heading # "" => err.heading = heading
  /\ msg # "" => err.msg = msg

\* the last next_token call returned a NumberLit for exactly the first n
\* characters of its input
LexedAsNumber(n) ==
  /\ status # "lex_err"
  /\ tokens[Len(tokens)].token_type = "NumberLit"
  /\ tokens[Len(tokens)].value = Some(SubSeq(last.before.stream, 1, n))
  /\ spans[Len(spans)] = SubSeq(last.before.stream, 1, n)
  /\ reader.stream = SubSeq(last.before.stream, n + 1, Len(last.before.stream))
  /\ tokens[Len(tokens)].end.ch = last.before.pos.ch + n

\* a decimal number at the start of s: digits, then `.`
DigitsThenDot(s) ==
  /\ DigitRun(s) >= 1
  /\ Len(s) > DigitRun(s)
  /\ s[DigitRun(s) + 1] = "."

\* what lexing s, which starts with digits and a `.`, has to give
NumberBeforeDot(s, n) ==
  IF Len(s) = n + 1 THEN LexFailed("Unexpected token at EOF", "")
  ELSE IF s[n + 2] \in DigitChars
  THEN LexFailed("", "Decimals/floating point numbers are not yet supported!")
  ELSE LexedAsNumber(n)

\* the last next_token call returned a Dot or a range operator that starts
\* where its input starts
LexedAsDot ==
  /\ status # "lex_err"
  /\ tokens[Len(tokens)].start = last.before.pos
  /\ \/ tokens[Len(tokens)].token_type = "Dot" /\ spans[Len(spans)] = <<".">>
     \/ tokens[Len(tokens)].op = Some("Range") /\ spans[Len(spans)] = <<".", ".">>
     \/ tokens[Len(tokens)].op = Some("IRange") /\ spans[Len(spans)] = <<".", ".", "=">>

\* C27: a number that is followed by `.`: when a digit follows the `.`, lex
\* fails with 'Decimals/floating point numbers are not yet supported!'; when
\* another character follows, the NumberLit ends before the `.`, which is
\* lexed next as a Dot or a range operator; when the input ends with the `.`,
\* lex fails with 'Unexpected token at EOF'.
C27_NumberBeforeDot ==
  /\ (last.op = "next_token" /\ DigitsThenDot(last.before.stream)) =>
       NumberBeforeDot(last.before.stream, DigitRun(last.before.stream))
  /\ (last.op = "next_token" /\ StartsWith(last.before.stream, <<".">>)) => LexedAsDot

C27_Witness ==
  /\ last.op = "next_token"
  /\ StartsWith(last.before.stream, <<".">>)
  /\ Len(tokens) = 2
  /\ tokens[1].token_type = "NumberLit"
  /\ tokens[1].value = Some(<<"1", "1">>)
  /\ tokens[2].token_type = "Dot"

\* lex has returned
LexReturned == status \in {"lexed", "lex_err"}

\* a next_token call that returned a token has consumed at least one character
NextTokenConsumes ==
  last.op = "next_token" =>
    \/ status = "lex_err"
    \/ /\ Len(reader.stream) < Len(last.before.stream)
       /\ spans[Len(spans)] # <<>>
       /\ reader.stream = SubSeq(last.before.stream,
                                  Len(spans[Len(spans)]) + 1, Len(last.before.stream))

\* lex returns the token list of the whole input or stops at the first error
ListOrFirstError ==
  /\ status = "lexed" =>
       /\ reader.stream = <<>>
       /\ tokens # <<>>
       /\ tokens[Len(tokens)].token_type = "EOF"
  /\ status = "lex_err" => (tokens = <<>> /\ err.heading # "")
  /\ LexReturned => ~ENABLED NextLexFair

\* C28: every next_token call on a reader that is not exhausted returns an
\* error or consumes at least one character, and lex returns on every input:
\* with the token list when the reader is exhausted, or with the first error.
C28_LexerTerminates ==
  /\ [](NextTokenConsumes /\ ListOrFirstError)
  /\ <>LexReturned

C28_Witness ==
  /\ status = "lexed"
  /\ Len(consumed) = 3
  /\ Len(tokens) = 4

\* the characters of the first n spans
SpansBefore(n) == Flatten(SubSeq(spans, 1, n))

\* the token i covers exactly the characters of its span: it starts at the
\* position after the spans before it and ends at the position after its own
CoversItsSpan(i) ==
  /\ tokens[i].start.line = LineAfter(SpansBefore(i - 1))
  /\ tokens[i].start.ch = ColumnAfter(SpansBefore(i - 1))
  /\ tokens[i].end.line = LineAfter(SpansBefore(i))
  /\ tokens[i].end.ch = ColumnAfter(SpansBefore(i))

\* C29: the tokens tile the input: the first token starts at line 1, column
\* 1, every other token starts where the token before it ends (the EOF token
\* where the last real token ends), every real token covers at least one
\* character, and the spans of the tokens, in order, are the whole input.
C29_TokensTile ==
  /\ tokens # <<>> => (tokens[1].start.line = 1 /\ tokens[1].start.ch = 1)
  /\ \A i \in 1..(Len(tokens) - 1) : tokens[i + 1].start = tokens[i].end
  /\ \A i \in 1..Len(tokens) : CoversItsSpan(i)
  /\ status # "lex_err" => SpansBefore(Len(spans)) = consumed
  /\ status = "lexed" =>
       /\ reader.stream = <<>>
       /\ \A i \in 1..(Len(tokens) - 1) : spans[i] # <<>>
       /\ tokens[Len(tokens)].token_type = "EOF"
       /\ Len(tokens) > 1 => tokens[Len(tokens)].start = tokens[Len(tokens) - 1].end

C29_Witness ==
  /\ status = "lexed"
  /\ consumed = <<"a", "\n", "\"", "\"">>
  /\ Len(tokens) = 4
  /\ tokens[3].token_type = "StringLit"
  /\ tokens[3].start.line = 2
  /\ tokens[3].start.ch = 1
  /\ tokens[4].start = tokens[3].end

\* C30: on a token list without a `use` statement parse returns, and what it
\* returns is a Program or an error.
C30_ProgramOrError ==
  last.op = "parse" =>
    \/ status = "parsed" /\ ast.node = "Program"
    \/ status = "parse_err" /\ ast = NoAst

====
